---- MODULE Spec2Model ----
(***************************************************************************)
(* Posting and ledger engine of roznamcha (core/models.py,                 *)
(* core/services/ledger.py, core/views.py).                                *)
(*                                                                         *)
(* The database is the tuple <<accounts, journal, stock, docs, parties>>.  *)
(* Callers are concurrent requests.  A request loads a document row        *)
(* (Load), runs the part of post() that reads (Begin: guards, totals, the  *)
(* exists() checks and the product rows read with the line items) and then *)
(* writes and commits (Commit).  Money and quantities are integers in the  *)
(* smallest unit.                                                          *)
(***************************************************************************)
EXTENDS Integers, Sequences, FiniteSets, TLC

\* ------------------------------------------------------------------------
\* Bounds
\* ------------------------------------------------------------------------
MaxDocs == 2        \* draft documents present in the database at the start
MaxOps  == 2        \* requests started in one behaviour
MaxDate == 3        \* dates are 1..MaxDate

\* ------------------------------------------------------------------------
\* Tenants, accounts, parties, products
\* ------------------------------------------------------------------------
Owners  == {"A", "B"}
Callers == {"c1", "c2"}
NoDate  == 0
Today   == 2
Dates   == 1..MaxDate
InitStock == 10

NoOwner == "none"

Acct(o, code) == [owner |-> o, code |-> code]
NoAccount == [owner |-> "none", code |-> "none"]

\* Account.account_type, as written by the defaults of every get-or-create
\* and by seed_default_accounts_for_owner
account_type(code) ==
    CASE code = "1010" -> "ASSET"
      [] code = "1020" -> "ASSET"
      [] code = "1200" -> "ASSET"
      [] code = "1300" -> "ASSET"
      [] code = "2100" -> "LIABILITY"
      [] code = "3000" -> "EQUITY"
      [] code = "5100" -> "EXPENSE"
      [] code = "5200" -> "EXPENSE"
      [] OTHER -> "ASSET"

\* codes seeded for an owner (the expense heads 5210..5290 behave as 5200)
SeedCodes == {"1200", "1300", "2100", "3000", "5100", "1010", "1020", "5200"}

seed_default_accounts_for_owner(o) == {Acct(o, c) : c \in SeedCodes}

\* Party rows: id is the position
CustA == 1
SuppA == 2
CustB == 3
NewCust == 4
NoParty == 0
Party == <<
    [owner |-> "A", party_type |-> "CUSTOMER", opening_balance |-> 4, opening_balance_is_debit |-> TRUE],
    [owner |-> "A", party_type |-> "SUPPLIER", opening_balance |-> 3, opening_balance_is_debit |-> FALSE],
    [owner |-> "B", party_type |-> "CUSTOMER", opening_balance |-> 0, opening_balance_is_debit |-> TRUE],
    [owner |-> "A", party_type |-> "CUSTOMER", opening_balance |-> 2, opening_balance_is_debit |-> FALSE] >>
PartyIds == 1..Len(Party)

\* Product rows
Products == {"pA1", "pA2", "pB1"}
NoProduct == "none"
ProductOwner == [p \in Products |-> IF p = "pB1" THEN "B" ELSE "A"]

\* ------------------------------------------------------------------------
\* Document rows
\* ------------------------------------------------------------------------
StockKinds == {"SalesInvoice", "PurchaseInvoice", "SalesReturn", "PurchaseReturn", "StockAdjustment"}
LineKinds  == {"SalesInvoice", "PurchaseInvoice", "SalesReturn", "PurchaseReturn"}
LockedKinds == {"DailyExpense", "CashBankTransfer", "StockAdjustment"}

Line(p, q, price, disc) ==
    [product |-> p, quantity_units |-> q, unit_price |-> price, discount_amount |-> disc]

BlankDoc ==
    [kind |-> "", owner |-> "A", date |-> 1, party |-> NoParty,
     account |-> NoAccount, account2 |-> NoAccount, lines |-> << >>,
     freight_charges |-> 0, other_charges |-> 0,
     payment_type |-> "CREDIT", payment_amount |-> 0,
     amount |-> 0, direction |-> "", is_adjustment |-> FALSE, adjustment_side |-> "",
     product |-> NoProduct, qty |-> 0, unit_cost |-> 0,
     posted |-> FALSE, related_model |-> "", related_id |-> 0]

\* SalesInvoice / PurchaseInvoice row with its items
Invoice(k, o, dt, party, lines, ptype, pacct, pamt, freight, other) ==
    [BlankDoc EXCEPT !.kind = k, !.owner = o, !.date = dt, !.party = party, !.lines = lines,
                     !.payment_type = ptype, !.account = pacct, !.payment_amount = pamt,
                     !.freight_charges = freight, !.other_charges = other]

\* SalesReturn / PurchaseReturn row with its items
Return(k, o, dt, party, lines) ==
    [BlankDoc EXCEPT !.kind = k, !.owner = o, !.date = dt, !.party = party, !.lines = lines]

PaymentRow(o, dt, party, acct, dir, amt, isadj, side, rm, rid) ==
    [BlankDoc EXCEPT !.kind = "Payment", !.owner = o, !.date = dt, !.party = party,
                     !.account = acct, !.direction = dir, !.amount = amt,
                     !.is_adjustment = isadj, !.adjustment_side = side,
                     !.related_model = rm, !.related_id = rid]

Expense(o, dt, paidfrom, head, amt) ==
    [BlankDoc EXCEPT !.kind = "DailyExpense", !.owner = o, !.date = dt,
                     !.account = paidfrom, !.account2 = head, !.amount = amt]

Transfer(o, dt, from, to, amt) ==
    [BlankDoc EXCEPT !.kind = "CashBankTransfer", !.owner = o, !.date = dt,
                     !.account = from, !.account2 = to, !.amount = amt]

Adjustment(o, dt, p, dir, q, cost) ==
    [BlankDoc EXCEPT !.kind = "StockAdjustment", !.owner = o, !.date = dt,
                     !.product = p, !.direction = dir, !.qty = q, !.unit_cost = cost]

\* The drafts a behaviour may start with
Catalogue == <<
    \* sales invoices of tenant A
    Invoice("SalesInvoice", "A", 3, CustA, <<Line("pA1", 3, 10, 0), Line("pA2", 2, 5, 0)>>, "CREDIT", NoAccount, 0, 0, 0),
    Invoice("SalesInvoice", "A", 1, CustA, <<Line("pA1", 2, 5, 1), Line("pA1", 1, 5, 0)>>, "CREDIT", NoAccount, 0, 0, 0),
    Invoice("SalesInvoice", "A", 1, CustA, <<Line("pA1", 2, 5, 0)>>, "FULL", Acct("A", "1010"), 10, 0, 0),
    Invoice("SalesInvoice", "A", 1, CustA, <<Line("pB1", 1, 5, 0)>>, "CREDIT", NoAccount, 0, 0, 0),
    Invoice("SalesInvoice", "A", 1, CustB, <<Line("pA1", 1, 5, 0)>>, "CREDIT", NoAccount, 0, 0, 0),
    Invoice("SalesInvoice", "A", 1, CustA, <<Line("pA1", 1, 5, 0)>>, "FULL", Acct("B", "1010"), 5, 0, 0),
    \* purchase invoices of tenant A
    Invoice("PurchaseInvoice", "A", 1, SuppA, <<Line("pA1", 2, 4, 1)>>, "CREDIT", NoAccount, 0, 1, 2),
    Invoice("PurchaseInvoice", "A", 2, SuppA, <<Line("pA1", 1, 4, 0), Line("pB1", 1, 4, 0)>>, "CREDIT", NoAccount, 0, 0, 0),
    Invoice("PurchaseInvoice", "A", 2, SuppA, <<Line("pA2", 2, 4, 0)>>, "PARTIAL", Acct("A", "1020"), 3, 0, 0),
    Invoice("PurchaseInvoice", "A", 2, SuppA, <<Line("pA2", 1, 4, 0), Line("pA2", 2, 4, 0)>>, "CREDIT", NoAccount, 0, 0, 0),
    Invoice("PurchaseInvoice", "A", 2, CustB, <<Line("pA2", 1, 4, 0)>>, "CREDIT", NoAccount, 0, 0, 0),
    Invoice("PurchaseInvoice", "A", 2, SuppA, <<Line("pA2", 1, 4, 0)>>, "FULL", Acct("B", "1010"), 4, 0, 0),
    \* returns of tenant A
    Return("SalesReturn", "A", 2, CustA, <<Line("pA1", 1, 5, 0)>>),
    Return("SalesReturn", "A", 2, CustA, <<Line("pA2", 1, 5, 0), Line("pB1", 1, 5, 0)>>),
    Return("SalesReturn", "A", 2, CustB, <<Line("pA2", 1, 5, 0)>>),
    Return("PurchaseReturn", "A", 3, SuppA, <<Line("pA2", 1, 4, 0)>>),
    Return("PurchaseReturn", "A", 3, SuppA, <<Line("pA1", 1, 4, 0), Line("pB1", 1, 4, 0)>>),
    Return("PurchaseReturn", "A", 3, CustB, <<Line("pA1", 1, 4, 0)>>),
    \* stock adjustments of tenant A
    Adjustment("A", 2, "pA1", "DOWN", 2, 3),
    Adjustment("A", 2, "pA2", "UP", 2, 3),
    Adjustment("A", 2, "pB1", "DOWN", 1, 3),
    \* payments of tenant A
    PaymentRow("A", 2, CustA, Acct("A", "1010"), "IN", 5, FALSE, "", "", 0),
    PaymentRow("A", 1, SuppA, Acct("A", "1020"), "OUT", 4, FALSE, "", "", 0),
    PaymentRow("A", 1, SuppA, Acct("A", "1010"), "IN", 1, FALSE, "", "", 0),
    PaymentRow("A", 1, CustA, Acct("A", "1010"), "OUT", 1, FALSE, "", "", 0),
    PaymentRow("A", 3, CustA, NoAccount, "IN", 2, TRUE, "DR", "", 0),
    PaymentRow("A", 3, SuppA, NoAccount, "IN", 2, TRUE, "CR", "", 0),
    PaymentRow("A", 3, CustB, Acct("A", "1010"), "IN", 2, FALSE, "", "", 0),
    PaymentRow("A", 3, CustA, Acct("B", "1010"), "IN", 2, FALSE, "", "", 0),
    \* expenses and transfers of tenant A
    Expense("A", 2, Acct("A", "1010"), Acct("A", "5200"), 3),
    Expense("A", 2, Acct("B", "1010"), Acct("A", "5200"), 3),
    Expense("A", 2, Acct("A", "1010"), Acct("B", "5200"), 3),
    Transfer("A", 1, Acct("A", "1010"), Acct("A", "1020"), 6),
    Transfer("A", 1, Acct("B", "1010"), Acct("A", "1020"), 6),
    Transfer("A", 1, Acct("A", "1010"), Acct("B", "1020"), 6),
    \* documents of tenant B
    Invoice("SalesInvoice", "B", 2, CustB, <<Line("pB1", 1, 5, 0)>>, "FULL", Acct("B", "1010"), 5, 0, 0),
    Invoice("SalesInvoice", "B", 2, CustB, <<Line("pA1", 1, 5, 0)>>, "CREDIT", NoAccount, 0, 0, 0),
    Adjustment("B", 1, "pB1", "DOWN", 1, 2),
    PaymentRow("B", 1, CustB, Acct("B", "1010"), "IN", 2, FALSE, "", "", 0),
    \* documents of tenant A whose total or amount is not positive
    Invoice("SalesInvoice", "A", 2, CustA, <<Line("pA1", 1, 2, 2)>>, "CREDIT", NoAccount, 0, 0, 0),
    Invoice("SalesInvoice", "A", 2, CustB, <<Line("pA1", 1, 2, 2)>>, "CREDIT", NoAccount, 0, 0, 0),
    Invoice("PurchaseInvoice", "A", 2, SuppA, <<Line("pA2", 1, 1, 3)>>, "FULL", Acct("A", "1010"), 2, 0, 0),
    Return("SalesReturn", "A", 2, CustA, <<Line("pA1", 1, 2, 2)>>),
    Adjustment("A", 2, "pA1", "DOWN", 2, 0),
    PaymentRow("A", 2, CustA, Acct("A", "1010"), "IN", 0, FALSE, "", "", 0),
    Transfer("A", 1, Acct("A", "1010"), Acct("A", "1020"), 0),
    \* documents of tenant A that lack a field or repeat an account
    PaymentRow("A", 3, CustA, NoAccount, "IN", 2, TRUE, "", "", 0),
    PaymentRow("A", 3, NoParty, NoAccount, "IN", 2, TRUE, "DR", "", 0),
    PaymentRow("A", 3, CustA, NoAccount, "IN", 2, FALSE, "", "", 0),
    Transfer("A", 1, Acct("A", "1010"), Acct("A", "1010"), 6),
    \* a fully paid sale saved without a payment account (sales_edit)
    Invoice("SalesInvoice", "A", 1, CustA, <<Line("pA1", 2, 5, 0)>>, "FULL", NoAccount, 10, 0, 0) >>

CatalogueIds == 1..Len(Catalogue)

\* ------------------------------------------------------------------------
\* Totals
\* ------------------------------------------------------------------------
\* SalesInvoiceItem.line_total (the other item classes repeat it)
line_total(l) == (l.quantity_units * l.unit_price) - l.discount_amount

RECURSIVE SumLines(_)
SumLines(ls) == IF ls = << >> THEN 0 ELSE line_total(Head(ls)) + SumLines(Tail(ls))

\* a total that forgets the charges of a purchase
calculate_total_lines_only(d) == SumLines(d.lines)

\* calculate_total of the four line-item documents
calculate_total(d) ==
    IF d.kind = "PurchaseInvoice"
    THEN SumLines(d.lines) + d.freight_charges + d.other_charges
    ELSE SumLines(d.lines)

\* StockAdjustment.amount
adjustment_amount(d) == d.qty * d.unit_cost

\* ------------------------------------------------------------------------
\* Journal store
\* ------------------------------------------------------------------------
JE(o, dt, dr, cr, amt, rm, rid) ==
    [owner |-> o, date |-> dt, debit_account |-> dr, credit_account |-> cr,
     amount |-> amt, related_model |-> rm, related_id |-> rid]

\* JournalEntry.objects.filter(owner, related_model, related_id).exists()
KeyExists(jr, o, rm, rid) ==
    \E i \in DOMAIN jr : jr[i].owner = o /\ jr[i].related_model = rm /\ jr[i].related_id = rid

\* the journal without its unique constraint
uniq_journal_per_doc_absent(jr, je) == TRUE

\* constraint uniq_journal_per_doc: TRUE when the insert is accepted
uniq_journal_per_doc(jr, je) == ~KeyExists(jr, je.owner, je.related_model, je.related_id)

\* a lookup that never finds the Payment of a document
PaymentExists_never(ds, o, rm, rid) == FALSE

\* Payment.objects.filter(owner, related_model, related_id).exists()
PaymentExists(ds, o, rm, rid) ==
    \E i \in DOMAIN ds : ds[i].kind = "Payment" /\ ds[i].owner = o
                         /\ ds[i].related_model = rm /\ ds[i].related_id = rid

\* constraint unique_payment_per_document_per_owner
unique_payment_per_document_per_owner(ds, o, rm, rid) == ~PaymentExists(ds, o, rm, rid)

\* get_company_account: get-or-create by (owner, code); the chart afterwards
get_company_account(accts, o, code) == accts \cup {Acct(o, code)}

\* a call of get_company_account as its callers see it: the owner check, then
\* the get-or-create
get_company_account_call(accts, owner, code) ==
    IF owner = NoOwner
    THEN [result |-> "error", accounts |-> accts, account |-> NoAccount]
    ELSE [result |-> "returned", accounts |-> get_company_account(accts, owner, code),
          account |-> Acct(owner, code)]

\* tenant_utils.get_owner_account: without an owner the get-or-create is by
\* code alone, over the accounts of every tenant: one match is returned,
\* several raise MultipleObjectsReturned, none tries to insert a row without
\* owner, which the NOT NULL owner column refuses
get_owner_account(accts, owner, code) ==
    IF owner = NoOwner
    THEN LET matches == {a \in accts : a.code = code}
         IN IF Cardinality(matches) = 1
            THEN [result |-> "returned", accounts |-> accts,
                  account |-> CHOOSE a \in matches : TRUE]
            ELSE [result |-> "error", accounts |-> accts, account |-> NoAccount]
    ELSE [result |-> "returned", accounts |-> accts \cup {Acct(owner, code)},
          account |-> Acct(owner, code)]

\* Product.adjust_stock: the instance's stock plus the delta, saved
adjust_stock(base, quantity_delta) == base + quantity_delta

\* ------------------------------------------------------------------------
\* Ledger / reporting engine (core/services/ledger.py)
\* ------------------------------------------------------------------------
\* order_by("date", "id") over a set of journal ids
RECURSIVE OrderByDateId(_, _)
OrderByDateId(jr, S) ==
    IF S = {} THEN << >>
    ELSE LET m == CHOOSE i \in S : \A j \in S :
                      jr[i].date < jr[j].date \/ (jr[i].date = jr[j].date /\ i <= j)
         IN <<m>> \o OrderByDateId(jr, S \ {m})

is_debit_normal(account) == account_type(account.code) \in {"ASSET", "EXPENSE"}

\* a movement that forgets the normal side of the account
Movement_debit_positive(je, account) ==
    LET debit  == IF je.debit_account = account THEN je.amount ELSE 0
        credit == IF je.credit_account = account THEN je.amount ELSE 0
    IN debit - credit

\* the signed movement one entry adds to the running balance of an account
Movement(je, account) ==
    LET debit  == IF je.debit_account = account THEN je.amount ELSE 0
        credit == IF je.credit_account = account THEN je.amount ELSE 0
    IN IF is_debit_normal(account) THEN debit - credit ELSE credit - debit

RECURSIVE FoldBalance(_, _, _, _)
FoldBalance(jr, ids, account, balance) ==
    IF ids = << >> THEN balance
    ELSE FoldBalance(jr, Tail(ids), account, balance + Movement(jr[Head(ids)], account))

\* a balance that leaves out the entries dated as_of
get_account_balance_before(jr, owner, account, as_of) ==
    LET qs == {i \in DOMAIN jr :
                 /\ jr[i].owner = owner
                 /\ (jr[i].debit_account = account \/ jr[i].credit_account = account)
                 /\ (as_of # NoDate => jr[i].date < as_of)}
    IN FoldBalance(jr, OrderByDateId(jr, qs), account, 0)

get_account_balance(jr, owner, account, as_of) ==
    LET qs == {i \in DOMAIN jr :
                 /\ jr[i].owner = owner
                 /\ (jr[i].debit_account = account \/ jr[i].credit_account = account)
                 /\ (as_of # NoDate => jr[i].date <= as_of)}
    IN FoldBalance(jr, OrderByDateId(jr, qs), account, 0)

LedgerRow(dt, debit, credit, balance, rm, rid) ==
    [date |-> dt, debit |-> debit, credit |-> credit, balance |-> balance,
     related_model |-> rm, related_id |-> rid]

RECURSIVE LedgerRows(_, _, _, _)
LedgerRows(jr, ids, account, running) ==
    IF ids = << >> THEN << >>
    ELSE LET je == jr[Head(ids)]
             debit  == IF je.debit_account = account THEN je.amount ELSE 0
             credit == IF je.credit_account = account THEN je.amount ELSE 0
             next == IF is_debit_normal(account) THEN running + (debit - credit)
                                                 ELSE running + (credit - debit)
         IN <<LedgerRow(je.date, debit, credit, next, je.related_model, je.related_id)>>
            \o LedgerRows(jr, Tail(ids), account, next)

\* a ledger whose opening balance counts the start day as well
get_account_ledger_opening_through_start(jr, owner, account, start, end) ==
    LET opening == IF start # NoDate
                   THEN get_account_balance(jr, owner, account, start)
                   ELSE 0
        qs == {i \in DOMAIN jr :
                 /\ jr[i].owner = owner
                 /\ (jr[i].debit_account = account \/ jr[i].credit_account = account)
                 /\ (start # NoDate => jr[i].date >= start)
                 /\ (end # NoDate => jr[i].date <= end)}
        head == IF start # NoDate
                THEN <<LedgerRow(start, 0, 0, opening, "", 0)>>
                ELSE << >>
    IN head \o LedgerRows(jr, OrderByDateId(jr, qs), account, opening)

get_account_ledger(jr, owner, account, start, end) ==
    LET qs_open == {i \in DOMAIN jr :
                      /\ jr[i].owner = owner /\ jr[i].date < start
                      /\ (jr[i].debit_account = account \/ jr[i].credit_account = account)}
        opening == IF start # NoDate
                   THEN FoldBalance(jr, OrderByDateId(jr, qs_open), account, 0)
                   ELSE 0
        qs == {i \in DOMAIN jr :
                 /\ jr[i].owner = owner
                 /\ (jr[i].debit_account = account \/ jr[i].credit_account = account)
                 /\ (start # NoDate => jr[i].date >= start)
                 /\ (end # NoDate => jr[i].date <= end)}
        head == IF start # NoDate
                THEN <<LedgerRow(start, 0, 0, opening, "", 0)>>
                ELSE << >>
    IN head \o LedgerRows(jr, OrderByDateId(jr, qs), account, opening)

\* Account.objects.filter(owner).order_by("code")
CodeOrder == <<"1010", "1020", "1200", "1300", "2100", "3000", "5100", "5200">>

RECURSIVE TrialRows(_, _, _, _, _)
TrialRows(jr, accts, owner, as_of, codes) ==
    IF codes = << >> THEN << >>
    ELSE IF Acct(owner, Head(codes)) \notin accts
         THEN TrialRows(jr, accts, owner, as_of, Tail(codes))
         ELSE LET acct == Acct(owner, Head(codes))
                  bal == get_account_balance(jr, owner, acct, as_of)
                  row == IF is_debit_normal(acct)
                         THEN IF bal >= 0 THEN [code |-> acct.code, debit |-> bal, credit |-> 0]
                                          ELSE [code |-> acct.code, debit |-> 0, credit |-> -bal]
                         ELSE IF bal >= 0 THEN [code |-> acct.code, debit |-> 0, credit |-> bal]
                                          ELSE [code |-> acct.code, debit |-> -bal, credit |-> 0]
              IN <<row>> \o TrialRows(jr, accts, owner, as_of, Tail(codes))

RECURSIVE SumField(_, _)
SumField(rows, f) == IF rows = << >> THEN 0 ELSE Head(rows)[f] + SumField(Tail(rows), f)

get_trial_balance(jr, accts, owner, as_of) ==
    LET rows == TrialRows(jr, accts, owner, as_of, CodeOrder)
        total_debit == SumField(rows, "debit")
        total_credit == SumField(rows, "credit")
    IN [rows |-> rows, total_debit |-> total_debit, total_credit |-> total_credit,
        balanced |-> (total_debit = total_credit)]

\* ---- party ledger: built from the posted documents in ds ----
\* the documents get_party_ledger lists for a party of the given type
PartyItems(ds, owner, p, start, end) ==
    LET kinds == IF Party[p].party_type = "CUSTOMER"
                 THEN {"SalesInvoice", "SalesReturn", "Payment"}
                 ELSE {"PurchaseInvoice", "PurchaseReturn", "Payment"}
    IN {j \in DOMAIN ds :
          /\ ds[j].kind \in kinds /\ ds[j].owner = owner /\ ds[j].party = p /\ ds[j].posted
          /\ (start # NoDate => ds[j].date >= start)
          /\ (end # NoDate => ds[j].date <= end)}

\* items.sort(key=(date, id))
RECURSIVE SortItems(_, _)
SortItems(ds, S) ==
    IF S = {} THEN << >>
    ELSE LET m == CHOOSE i \in S : \A j \in S :
                      ds[i].date < ds[j].date \/ (ds[i].date = ds[j].date /\ i <= j)
         IN <<m>> \o SortItems(ds, S \ {m})

\* the (debit, credit) pair of one item
PartyItemAmounts(d) ==
    CASE d.kind \in {"SalesInvoice", "PurchaseReturn"} -> <<calculate_total(d), 0>>
      [] d.kind \in {"SalesReturn", "PurchaseInvoice"} -> <<0, calculate_total(d)>>
      [] d.kind = "Payment" /\ d.is_adjustment ->
            IF (IF d.adjustment_side = "" THEN "DR" ELSE d.adjustment_side) = "DR"
            THEN <<d.amount, 0>> ELSE <<0, d.amount>>
      [] d.kind = "Payment" /\ ~d.is_adjustment ->
            IF Party[d.party].party_type = "CUSTOMER"
            THEN (IF d.direction = "IN" THEN <<0, d.amount>> ELSE <<d.amount, 0>>)
            ELSE (IF d.direction = "OUT" THEN <<d.amount, 0>> ELSE <<0, d.amount>>)

RECURSIVE PartyRows(_, _, _, _)
PartyRows(ds, ids, customer, running) ==
    IF ids = << >> THEN << >>
    ELSE LET d == ds[Head(ids)]
             dc == PartyItemAmounts(d)
             next == IF customer THEN running + (dc[1] - dc[2])
                                 ELSE running + (dc[2] - dc[1])
         IN <<LedgerRow(d.date, dc[1], dc[2], next, d.kind, Head(ids))>>
            \o PartyRows(ds, Tail(ids), customer, next)

get_party_ledger(ds, owner, p, start, end) ==
    LET party == Party[p]
        opening == party.opening_balance
        opening_is_debit == party.opening_balance_is_debit
        customer == party.party_type = "CUSTOMER"
        running == IF customer
                   THEN (IF opening_is_debit THEN opening ELSE -opening)
                   ELSE (IF ~opening_is_debit THEN opening ELSE -opening)
        head == IF start # NoDate
                THEN <<LedgerRow(start, 0, 0, running, "", 0)>>
                ELSE << >>
    IN head \o PartyRows(ds, SortItems(ds, PartyItems(ds, owner, p, start, end)),
                         customer, running)

get_party_balance(ds, owner, p, as_of) ==
    LET rows == get_party_ledger(ds, owner, p, NoDate, as_of)
    IN IF rows = << >> THEN 0 ELSE rows[Len(rows)].balance

\* ------------------------------------------------------------------------
\* Posting engine (the post() methods of core/models.py)
\*
\* K_guard(self) is the part of post() before its transaction, evaluated on
\* the caller's in-memory instance: "return", "raise" or "go".
\* K_post(i, self, sn, db) is the transaction: sn is what the request read
\* when it began (sn.je, sn.pay: the exists() checks; sn.stock: the product
\* rows), db the committed database when it writes.  The result is
\* "posted", "noop" (silent return) or "error" (exception, rolled back).
\* ------------------------------------------------------------------------
\* an effect that rewrites the journal, keeping only its newest row
Effect_newest_row_only(result, db) ==
    [result |-> result,
     db |-> [db EXCEPT !.journal = IF @ = << >> THEN @ ELSE <<@[Len(@)]>>]]

Effect(result, db) == [result |-> result, db |-> db]

is_cash_or_bank(code) == code \in {"1010", "1020"}

\* a block that keeps the writes made before an exception
atomic_absent(db, e) == e

\* with transaction.atomic(): db is the database when the block is entered,
\* e what the block did; an exception rolls its writes back
atomic(db, e) == IF e.result = "error" THEN Effect("error", db) ELSE e

\* the loop over self.items.select_related("product"): every item carries its
\* own Product instance, read by the one query
RECURSIVE StockLoop(_, _, _, _, _, _)
StockLoop(lines, sign, check_owner, owner, seen, cur) ==
    IF lines = << >> THEN [raised |-> FALSE, stock |-> cur]
    ELSE LET item == Head(lines)
             qty == item.quantity_units
         IN IF qty > 0
            THEN IF check_owner /\ ProductOwner[item.product] # owner
                 THEN [raised |-> TRUE, stock |-> cur]
                 ELSE StockLoop(Tail(lines), sign, check_owner, owner, seen,
                        [cur EXCEPT ![item.product] = adjust_stock(seen[item.product], sign * qty)])
            ELSE StockLoop(Tail(lines), sign, check_owner, owner, seen, cur)

\* ---- Payment ----
Payment_guard(self) ==
    IF self.posted \/ self.amount <= 0 THEN "return"
    ELSE IF self.owner = NoOwner THEN "raise"
    ELSE "go"

control_code(party_type) == IF party_type = "CUSTOMER" THEN "1300" ELSE "2100"

\* a payment whose receipt and disbursement sides are exchanged
Payment_accounts_exchanged(self) ==
    LET control_account == Acct(self.owner, control_code(Party[self.party].party_type))
        opening_acct == Acct(self.owner, "3000")
        side == IF self.adjustment_side \in {"DR", "CR"} THEN self.adjustment_side ELSE "DR"
    IN IF self.is_adjustment
       THEN IF side = "DR" THEN <<control_account, opening_acct>>
                           ELSE <<opening_acct, control_account>>
       ELSE IF self.direction = "IN" THEN <<control_account, self.account>>
                                     ELSE <<self.account, control_account>>

\* debit and credit account of a payment
Payment_accounts(self) ==
    LET control_account == Acct(self.owner, control_code(Party[self.party].party_type))
        opening_acct == Acct(self.owner, "3000")
        side == IF self.adjustment_side \in {"DR", "CR"} THEN self.adjustment_side ELSE "DR"
    IN IF self.is_adjustment
       THEN IF side = "DR" THEN <<control_account, opening_acct>>
                           ELSE <<opening_acct, control_account>>
       ELSE IF self.direction = "IN" THEN <<self.account, control_account>>
                                     ELSE <<control_account, self.account>>

Payment_post(i, self, sn, db) ==
    IF self.party = NoParty THEN Effect("error", db)
    ELSE IF Party[self.party].owner # self.owner THEN Effect("error", db)
    ELSE IF ~self.is_adjustment /\ self.account = NoAccount THEN Effect("error", db)
    ELSE IF ~self.is_adjustment /\ self.account.owner # self.owner THEN Effect("error", db)
    ELSE LET a1 == get_company_account(db.accounts, self.owner,
                                       control_code(Party[self.party].party_type))
             a2 == get_company_account(a1, self.owner, "3000")
             dc == Payment_accounts(self)
             je == JE(self.owner, self.date, dc[1], dc[2], self.amount, "Payment", i)
         IN IF ~sn.je /\ ~uniq_journal_per_doc(db.journal, je) THEN Effect("error", db)
            ELSE Effect("posted",
                   [db EXCEPT !.accounts = a2,
                              !.journal = IF sn.je THEN @ ELSE Append(@, je),
                              !.docs = [@ EXCEPT ![i].posted = TRUE]])

\* payment.post() on the Payment an invoice has just created
AutoPayment(inv_id, inv, dir, db) ==
    LET pid == Len(db.docs) + 1
        payment == PaymentRow(inv.owner, inv.date, inv.party, inv.account, dir,
                              inv.payment_amount, FALSE, "", inv.kind, inv_id)
        db1 == [db EXCEPT !.docs = Append(@, payment)]
        g == Payment_guard(payment)
    IN IF g = "raise" THEN Effect("error", db1)
       ELSE IF g = "return" THEN Effect("noop", db1)
       ELSE Payment_post(pid, payment,
                         [je |-> KeyExists(db1.journal, payment.owner, "Payment", pid)], db1)

WantsPayment(self) ==
    /\ self.payment_type \in {"FULL", "PARTIAL"}
    /\ self.payment_amount > 0
    /\ self.account # NoAccount

\* ---- SalesInvoice ----
SalesInvoice_guard(self) ==
    IF self.posted THEN "return"
    ELSE IF self.owner = NoOwner THEN "raise"
    ELSE IF self.party # NoParty /\ Party[self.party].owner # self.owner THEN "raise"
    ELSE IF self.account # NoAccount /\ self.account.owner # self.owner THEN "raise"
    ELSE "go"

SalesInvoice_entry(i, self) ==
    JE(self.owner, self.date, Acct(self.owner, "1300"), Acct(self.owner, "1200"),
       calculate_total(self), "SalesInvoice", i)

SalesInvoice_post(i, self, sn, db) ==
    LET total == calculate_total(self)
        a1 == get_company_account(db.accounts, self.owner, "1300")
        a2 == get_company_account(a1, self.owner, "1200")
        je == SalesInvoice_entry(i, self)
        loop == StockLoop(self.lines, -1, FALSE, self.owner, sn.stock, db.stock)
        db1 == [accounts |-> a2,
                journal |-> IF sn.je THEN db.journal ELSE Append(db.journal, je),
                stock |-> loop.stock,
                docs |-> [db.docs EXCEPT ![i].posted = TRUE]]
    IN atomic(db,
         IF total <= 0 THEN Effect("noop", db)
         ELSE IF ~sn.je /\ ~uniq_journal_per_doc(db.journal, je)
              THEN Effect("error", [db EXCEPT !.accounts = a2])
         ELSE IF WantsPayment(self) /\ ~sn.pay
              THEN IF ~unique_payment_per_document_per_owner(db.docs, self.owner, "SalesInvoice", i)
                   THEN Effect("error", db1)
                   ELSE LET pe == AutoPayment(i, self, "IN", db1)
                        IN IF pe.result = "error" THEN pe
                                                  ELSE Effect("posted", pe.db)
              ELSE Effect("posted", db1))

\* ---- PurchaseInvoice ----
PurchaseInvoice_guard(self) ==
    IF self.posted THEN "return"
    ELSE IF self.owner = NoOwner THEN "raise"
    ELSE IF self.party # NoParty /\ Party[self.party].owner # self.owner THEN "raise"
    ELSE IF self.account # NoAccount /\ self.account.owner # self.owner THEN "raise"
    ELSE "go"

PurchaseInvoice_entry(i, self) ==
    JE(self.owner, self.date, Acct(self.owner, "1200"), Acct(self.owner, "2100"),
       calculate_total(self), "PurchaseInvoice", i)

PurchaseInvoice_post(i, self, sn, db) ==
    LET total == calculate_total(self)
        a1 == get_company_account(db.accounts, self.owner, "1200")
        a2 == get_company_account(a1, self.owner, "2100")
        je == PurchaseInvoice_entry(i, self)
        loop == StockLoop(self.lines, 1, TRUE, self.owner, sn.stock, db.stock)
        db1 == [accounts |-> a2,
                journal |-> IF sn.je THEN db.journal ELSE Append(db.journal, je),
                stock |-> loop.stock,
                docs |-> db.docs]
        pe == IF WantsPayment(self) /\ ~sn.pay
              THEN IF ~unique_payment_per_document_per_owner(db.docs, self.owner, "PurchaseInvoice", i)
                   THEN Effect("error", db1)
                   ELSE AutoPayment(i, self, "OUT", db1)
              ELSE Effect("posted", db1)
    IN atomic(db,
         IF total <= 0 THEN Effect("noop", db)
         ELSE IF ~sn.je /\ ~uniq_journal_per_doc(db.journal, je)
              THEN Effect("error", [db EXCEPT !.accounts = a2])
         ELSE IF loop.raised THEN Effect("error", db1)
         ELSE IF pe.result = "error" THEN pe
         ELSE Effect("posted", [pe.db EXCEPT !.docs = [@ EXCEPT ![i].posted = TRUE]]))

\* ---- SalesReturn ----
SalesReturn_guard(self) ==
    IF self.posted THEN "return"
    ELSE IF self.owner = NoOwner THEN "raise"
    ELSE IF self.party # NoParty /\ Party[self.party].owner # self.owner THEN "raise"
    ELSE "go"

SalesReturn_entry(i, self) ==
    JE(self.owner, self.date, Acct(self.owner, "1200"), Acct(self.owner, "1300"),
       calculate_total(self), "SalesReturn", i)

SalesReturn_post(i, self, sn, db) ==
    LET total == calculate_total(self)
        a1 == get_company_account(db.accounts, self.owner, "1200")
        a2 == get_company_account(a1, self.owner, "1300")
        je == SalesReturn_entry(i, self)
        loop == StockLoop(self.lines, 1, TRUE, self.owner, sn.stock, db.stock)
        db1 == [accounts |-> a2,
                journal |-> IF sn.je THEN db.journal ELSE Append(db.journal, je),
                stock |-> loop.stock,
                docs |-> db.docs]
    IN atomic(db,
         IF total <= 0 THEN Effect("noop", db)
         ELSE IF ~sn.je /\ ~uniq_journal_per_doc(db.journal, je)
              THEN Effect("error", [db EXCEPT !.accounts = a2])
         ELSE IF loop.raised THEN Effect("error", db1)
         ELSE Effect("posted", [db1 EXCEPT !.docs = [@ EXCEPT ![i].posted = TRUE]]))

\* ---- PurchaseReturn ----
PurchaseReturn_guard(self) ==
    IF self.posted THEN "return"
    ELSE IF self.owner = NoOwner THEN "raise"
    ELSE IF self.party # NoParty /\ Party[self.party].owner # self.owner THEN "raise"
    ELSE "go"

PurchaseReturn_entry(i, self) ==
    JE(self.owner, self.date, Acct(self.owner, "2100"), Acct(self.owner, "1200"),
       calculate_total(self), "PurchaseReturn", i)

PurchaseReturn_post(i, self, sn, db) ==
    LET total == calculate_total(self)
        a1 == get_company_account(db.accounts, self.owner, "1200")
        a2 == get_company_account(a1, self.owner, "2100")
        je == PurchaseReturn_entry(i, self)
        loop == StockLoop(self.lines, -1, TRUE, self.owner, sn.stock, db.stock)
        db1 == [accounts |-> a2,
                journal |-> IF sn.je THEN db.journal ELSE Append(db.journal, je),
                stock |-> loop.stock,
                docs |-> db.docs]
    IN atomic(db,
         IF total <= 0 THEN Effect("noop", db)
         ELSE IF ~sn.je /\ ~uniq_journal_per_doc(db.journal, je)
              THEN Effect("error", [db EXCEPT !.accounts = a2])
         ELSE IF loop.raised THEN Effect("error", db1)
         ELSE Effect("posted", [db1 EXCEPT !.docs = [@ EXCEPT ![i].posted = TRUE]]))

\* ---- DailyExpense ----
DailyExpense_guard(self) ==
    IF self.posted \/ self.amount <= 0 THEN "return"
    ELSE IF self.owner = NoOwner THEN "raise"
    ELSE IF self.account # NoAccount /\ self.account.owner # self.owner THEN "raise"
    ELSE IF self.account2 # NoAccount /\ self.account2.owner # self.owner THEN "raise"
    ELSE "go"

\* DailyExpense.clean, run by save() through full_clean()
DailyExpense_clean(self, old) ==
    /\ self.amount > 0
    /\ self.account.owner = self.owner
    /\ self.account2.owner = self.owner
    /\ is_cash_or_bank(self.account.code)
    /\ account_type(self.account2.code) = "EXPENSE"
    /\ ~old.posted

DailyExpense_entry(i, self) ==
    JE(self.owner, self.date, self.account2, self.account, self.amount, "DailyExpense", i)

\* paid_from is .account, expense_head is .account2
DailyExpense_post(i, self, sn, db) ==
    LET locked == db.docs[i]
        je == DailyExpense_entry(i, self)
        exists == KeyExists(db.journal, self.owner, "DailyExpense", i)
    IN IF locked.posted THEN Effect("noop", db)
       ELSE IF ~DailyExpense_clean(locked, locked) THEN Effect("error", db)
       ELSE Effect("posted",
              [db EXCEPT !.journal = IF exists THEN @ ELSE Append(@, je),
                         !.docs = [@ EXCEPT ![i].posted = TRUE]])

\* ---- CashBankTransfer ----
\* a guard that lets another tenant's accounts through
CashBankTransfer_guard_without_owner_check(self) ==
    IF self.posted \/ self.amount <= 0 THEN "return"
    ELSE IF self.owner = NoOwner THEN "raise"
    ELSE IF self.account = self.account2 THEN "raise"
    ELSE "go"

CashBankTransfer_guard(self) ==
    IF self.posted \/ self.amount <= 0 THEN "return"
    ELSE IF self.owner = NoOwner THEN "raise"
    ELSE IF self.account # NoAccount /\ self.account.owner # self.owner THEN "raise"
    ELSE IF self.account2 # NoAccount /\ self.account2.owner # self.owner THEN "raise"
    ELSE IF self.account = self.account2 THEN "raise"
    ELSE "go"

CashBankTransfer_entry(i, self) ==
    JE(self.owner, self.date, self.account2, self.account, self.amount, "CashBankTransfer", i)

\* a transfer that does not look at the row it locked
CashBankTransfer_post_without_recheck(i, self, sn, db) ==
    LET je == CashBankTransfer_entry(i, self)
        exists == KeyExists(db.journal, self.owner, "CashBankTransfer", i)
    IN Effect("posted",
              [db EXCEPT !.journal = IF exists THEN @ ELSE Append(@, je),
                         !.docs = [@ EXCEPT ![i].posted = TRUE]])

\* from_account is .account, to_account is .account2
CashBankTransfer_post(i, self, sn, db) ==
    LET locked == db.docs[i]
        je == CashBankTransfer_entry(i, self)
        exists == KeyExists(db.journal, self.owner, "CashBankTransfer", i)
    IN IF locked.posted THEN Effect("noop", db)
       ELSE Effect("posted",
              [db EXCEPT !.journal = IF exists THEN @ ELSE Append(@, je),
                         !.docs = [@ EXCEPT ![i].posted = TRUE]])

\* ---- StockAdjustment ----
\* a guard that posts an adjustment whatever its amount
StockAdjustment_guard_any_amount(self) ==
    IF self.posted THEN "return"
    ELSE IF self.owner = NoOwner THEN "raise"
    ELSE IF self.product # NoProduct /\ ProductOwner[self.product] # self.owner THEN "raise"
    ELSE "go"

StockAdjustment_guard(self) ==
    IF self.posted \/ adjustment_amount(self) <= 0 THEN "return"
    ELSE IF self.owner = NoOwner THEN "raise"
    ELSE IF self.product # NoProduct /\ ProductOwner[self.product] # self.owner THEN "raise"
    ELSE "go"

StockAdjustment_entry(i, self) ==
    IF self.direction = "DOWN"
    THEN JE(self.owner, self.date, Acct(self.owner, "5100"), Acct(self.owner, "1200"),
            adjustment_amount(self), "StockAdjustment", i)
    ELSE JE(self.owner, self.date, Acct(self.owner, "1200"), Acct(self.owner, "3000"),
            adjustment_amount(self), "StockAdjustment", i)

\* a delta that adds the quantity whatever the direction
StockAdjustment_delta_always_up(self) == self.qty

StockAdjustment_delta(self) == IF self.direction = "DOWN" THEN -self.qty ELSE self.qty

\* self.product is the instance the guard read: its stock is sn.stock
StockAdjustment_post(i, self, sn, db) ==
    LET locked == db.docs[i]
        a1 == get_company_account(db.accounts, self.owner, "1200")
        a2 == get_company_account(a1, self.owner, "3000")
        a3 == get_company_account(a2, self.owner, "5100")
        je == StockAdjustment_entry(i, self)
        exists == KeyExists(db.journal, self.owner, "StockAdjustment", i)
        stock_delta == StockAdjustment_delta(self)
    IN IF locked.posted THEN Effect("noop", db)
       ELSE Effect("posted",
              [accounts |-> a3,
               journal |-> IF exists THEN db.journal ELSE Append(db.journal, je),
               stock |-> IF stock_delta # 0
                         THEN [db.stock EXCEPT ![self.product] =
                                  adjust_stock(sn.stock[self.product], stock_delta)]
                         ELSE db.stock,
               docs |-> [db.docs EXCEPT ![i].posted = TRUE]])

\* ---- dispatch on the document class ----
Guard(self) ==
    CASE self.kind = "SalesInvoice"     -> SalesInvoice_guard(self)
      [] self.kind = "PurchaseInvoice"  -> PurchaseInvoice_guard(self)
      [] self.kind = "SalesReturn"      -> SalesReturn_guard(self)
      [] self.kind = "PurchaseReturn"   -> PurchaseReturn_guard(self)
      [] self.kind = "Payment"          -> Payment_guard(self)
      [] self.kind = "DailyExpense"     -> DailyExpense_guard(self)
      [] self.kind = "CashBankTransfer" -> CashBankTransfer_guard(self)
      [] self.kind = "StockAdjustment"  -> StockAdjustment_guard(self)

Post(i, self, sn, db) ==
    CASE self.kind = "SalesInvoice"     -> SalesInvoice_post(i, self, sn, db)
      [] self.kind = "PurchaseInvoice"  -> PurchaseInvoice_post(i, self, sn, db)
      [] self.kind = "SalesReturn"      -> SalesReturn_post(i, self, sn, db)
      [] self.kind = "PurchaseReturn"   -> PurchaseReturn_post(i, self, sn, db)
      [] self.kind = "Payment"          -> Payment_post(i, self, sn, db)
      [] self.kind = "DailyExpense"     -> DailyExpense_post(i, self, sn, db)
      [] self.kind = "CashBankTransfer" -> CashBankTransfer_post(i, self, sn, db)
      [] self.kind = "StockAdjustment"  -> StockAdjustment_post(i, self, sn, db)

\* ---- party opening balance ----
\* an opening entry booked against cash instead of Opening Balances
post_opening_balance_entry_against_cash(p) ==
    LET party == Party[p]
    IN JE(party.owner, Today, Acct(party.owner, control_code(party.party_type)),
          Acct(party.owner, "1010"), party.opening_balance, "PartyOpening", p)

\* Party.post_opening_balance: the entry it creates
post_opening_balance_entry(p) ==
    LET party == Party[p]
        control_acct == Acct(party.owner, control_code(party.party_type))
        opening_acct == Acct(party.owner, "3000")
        is_debit == party.opening_balance_is_debit
        debit_account == IF party.party_type = "CUSTOMER"
                         THEN (IF is_debit THEN control_acct ELSE opening_acct)
                         ELSE (IF is_debit THEN opening_acct ELSE control_acct)
        credit_account == IF party.party_type = "CUSTOMER"
                          THEN (IF is_debit THEN opening_acct ELSE control_acct)
                          ELSE (IF is_debit THEN control_acct ELSE opening_acct)
    IN JE(party.owner, Today, debit_account, credit_account, party.opening_balance,
          "PartyOpening", p)

\* create_opening_entry_for_party(request, party, amount, side): its entry
create_opening_entry_for_party_entry(p, amt, side) ==
    LET party == Party[p]
        control_acct == Acct(party.owner, control_code(party.party_type))
        opening_acct == Acct(party.owner, "3000")
    IN IF side = "CR"
       THEN JE(party.owner, Today, opening_acct, control_acct, amt, "PartyOpening", p)
       ELSE JE(party.owner, Today, control_acct, opening_acct, amt, "PartyOpening", p)

\* the side the creating views pass for a stored party
OpeningSide(p) == IF Party[p].opening_balance_is_debit THEN "DR" ELSE "CR"

\* ------------------------------------------------------------------------
\* State
\* ------------------------------------------------------------------------
VARIABLES
    accounts,   \* Account rows: set of [owner, code]
    journal,    \* JournalEntry rows in id order
    stock,      \* Product.current_stock
    docs,       \* document rows of every class, in id order
    parties,    \* ids of the Party rows that exist
    pc,         \* per request: "idle", "loaded" (instance in memory), "txn"
    req,        \* per request: the operation, its target and its in-memory instance
    snap,       \* per request: what its reads returned
    last,       \* per request: how its last call ended, and where: before its
                \* transaction ("loaded") or inside it ("txn")
    nops        \* requests started

vars == <<accounts, journal, stock, docs, parties, pc, req, snap, last, nops>>

DB == [accounts |-> accounts, journal |-> journal, stock |-> stock, docs |-> docs]

NoReq  == [op |-> "none", id |-> 0, self |-> BlankDoc, chain |-> FALSE]
NoSnap == [je |-> FALSE, pay |-> FALSE, stock |-> [p \in Products |-> 0]]
NoLast == [op |-> "none", id |-> 0, result |-> "none", at |-> "none"]

\* The first draft is any row of the catalogue; the drafts beside it are
\* rows that share products, parties and accounts with the others: a credit
\* sale of pA1 and pA2, a write-down of pA1 and a receipt from CustA.
Companions == {1, 19, 22}

DraftChoices ==
    {s \in [1..MaxDocs -> CatalogueIds] : \A k \in 2..MaxDocs : s[k] \in Companions}

\* tenant A was seeded at signup; tenant B only has its cash, bank and
\* expense accounts, its control accounts are created on demand
InitAccounts ==
    seed_default_accounts_for_owner("A")
        \cup {Acct("B", "1010"), Acct("B", "1020"), Acct("B", "5200")}

\* the parties the drafts refer to were created earlier: the post_save signal
\* has posted their opening balances
InitParties == {CustA, SuppA, CustB}
InitJournal == <<post_opening_balance_entry(CustA), post_opening_balance_entry(SuppA)>>

Init ==
    /\ accounts = InitAccounts
    /\ journal = InitJournal
    /\ stock = [p \in Products |-> InitStock]
    /\ \E s \in DraftChoices : docs = [k \in 1..MaxDocs |-> Catalogue[s[k]]]
    /\ parties = InitParties
    /\ pc = [c \in Callers |-> "idle"]
    /\ req = [c \in Callers |-> NoReq]
    /\ snap = [c \in Callers |-> NoSnap]
    /\ last = [c \in Callers |-> NoLast]
    /\ nops = 0

\* ------------------------------------------------------------------------
\* Requests
\* ------------------------------------------------------------------------
\* what is left of a row after invoice.items.all().delete(); invoice.delete()
Deleted == [BlankDoc EXCEPT !.kind = "deleted"]

Finish(c, result) ==
    /\ last' = [last EXCEPT ![c] = [op |-> req[c].op, id |-> req[c].id, result |-> result,
                                    at |-> pc[c]]]
    /\ snap' = [snap EXCEPT ![c] = NoSnap]

\* A request starts in a free slot.  Slots are interchangeable, so a request
\* that starts while no other is running takes the first one.
FirstCaller == "c1"
CanStart(c) ==
    /\ pc[c] = "idle"
    /\ nops < MaxOps
    /\ (c = FirstCaller \/ pc[FirstCaller] # "idle")

\* tenant_get_object_or_404(request, Model, pk=pk): the row as committed now
Load(c, i) ==
    /\ CanStart(c)
    /\ i \in DOMAIN docs
    /\ docs[i] # Deleted
    /\ req' = [req EXCEPT ![c] = [op |-> "post", id |-> i, self |-> docs[i], chain |-> FALSE]]
    /\ pc' = [pc EXCEPT ![c] = "loaded"]
    /\ nops' = nops + 1
    /\ UNCHANGED <<accounts, journal, stock, docs, parties, snap, last>>

\* document.post() up to its writes
BeginPost(c) ==
    /\ pc[c] = "loaded"
    /\ req[c].op = "post"
    /\ LET i == req[c].id
           self == req[c].self
           g == Guard(self)
       IN IF g = "go"
          THEN /\ pc' = [pc EXCEPT ![c] = "txn"]
               /\ snap' = [snap EXCEPT ![c] =
                     [je |-> KeyExists(journal, self.owner, self.kind, i),
                      pay |-> PaymentExists(docs, self.owner, self.kind, i),
                      stock |-> stock]]
               /\ req' = [req EXCEPT ![c].self.lines = docs[i].lines]
               /\ UNCHANGED last
          ELSE /\ pc' = [pc EXCEPT ![c] = "idle"]
               /\ Finish(c, IF g = "raise" THEN "error" ELSE "noop")
               /\ req' = [req EXCEPT ![c] = NoReq]
    /\ UNCHANGED <<accounts, journal, stock, docs, parties, nops>>

\* the writes of post() and the commit of its transaction
CommitPost(c) ==
    /\ pc[c] = "txn"
    /\ req[c].op = "post"
    /\ LET e == IF docs[req[c].id] = Deleted
                THEN Effect("error", DB)
                ELSE Post(req[c].id, req[c].self, snap[c], DB)
       IN /\ accounts' = e.db.accounts
          /\ journal' = e.db.journal
          /\ stock' = e.db.stock
          /\ docs' = e.db.docs
          /\ Finish(c, e.result)
    /\ pc' = [pc EXCEPT ![c] = "idle"]
    /\ req' = [req EXCEPT ![c] = NoReq]
    /\ UNCHANGED <<parties, nops>>

\* customer_create / supplier_create: Party.objects.create(...); the
\* post_save signal and the view's own call follow in the same request
CreateParty(c, p) ==
    /\ CanStart(c)
    /\ p \in PartyIds \ parties
    /\ parties' = parties \cup {p}
    /\ req' = [req EXCEPT ![c] = [op |-> "opening", id |-> p, self |-> BlankDoc, chain |-> TRUE]]
    /\ pc' = [pc EXCEPT ![c] = "loaded"]
    /\ nops' = nops + 1
    /\ UNCHANGED <<accounts, journal, stock, docs, snap, last>>

\* a further call of party.post_opening_balance() ("opening") or of
\* create_opening_entry_for_party ("view_opening") for a party created in
\* this behaviour
CallOpening(c, p, op) ==
    /\ CanStart(c)
    /\ p \in parties \ InitParties
    /\ op \in {"opening", "view_opening"}
    /\ req' = [req EXCEPT ![c] = [op |-> op, id |-> p, self |-> BlankDoc, chain |-> FALSE]]
    /\ pc' = [pc EXCEPT ![c] = "loaded"]
    /\ nops' = nops + 1
    /\ UNCHANGED <<accounts, journal, stock, docs, parties, snap, last>>

\* what follows a finished opening call inside the creating request
AfterOpening(c) ==
    IF req[c].op = "opening" /\ req[c].chain /\ Party[req[c].id].opening_balance > 0
    THEN /\ pc' = [pc EXCEPT ![c] = "loaded"]
         /\ req' = [req EXCEPT ![c] = [@ EXCEPT !.op = "view_opening", !.chain = FALSE]]
    ELSE /\ pc' = [pc EXCEPT ![c] = "idle"]
         /\ req' = [req EXCEPT ![c] = NoReq]

\* Party.post_opening_balance up to JournalEntry.objects.create
BeginOpening(c) ==
    /\ pc[c] = "loaded"
    /\ req[c].op = "opening"
    /\ LET p == req[c].id
           party == Party[p]
       IN IF party.opening_balance <= 0
          THEN /\ Finish(c, "noop") /\ AfterOpening(c) /\ UNCHANGED accounts
          ELSE IF party.owner = NoOwner
          THEN /\ Finish(c, "error") /\ AfterOpening(c) /\ UNCHANGED accounts
          ELSE /\ accounts' = get_company_account(
                                 get_company_account(accounts, party.owner,
                                                     control_code(party.party_type)),
                                 party.owner, "3000")
               /\ IF KeyExists(journal, party.owner, "PartyOpening", p)
                  THEN Finish(c, "noop") /\ AfterOpening(c)
                  ELSE /\ pc' = [pc EXCEPT ![c] = "txn"]
                       /\ UNCHANGED <<req, snap, last>>
    /\ UNCHANGED <<journal, stock, docs, parties, nops>>

\* create_opening_entry_for_party up to JournalEntry.objects.create
BeginViewOpening(c) ==
    /\ pc[c] = "loaded"
    /\ req[c].op = "view_opening"
    /\ LET p == req[c].id
           party == Party[p]
       IN IF party.opening_balance <= 0
          THEN /\ Finish(c, "noop") /\ AfterOpening(c) /\ UNCHANGED accounts
          ELSE IF KeyExists(journal, party.owner, "PartyOpening", p)
          THEN /\ Finish(c, "noop") /\ AfterOpening(c) /\ UNCHANGED accounts
          ELSE /\ accounts' = get_company_account(
                                 get_company_account(accounts, party.owner, "3000"),
                                 party.owner, control_code(party.party_type))
               /\ pc' = [pc EXCEPT ![c] = "txn"]
               /\ UNCHANGED <<req, snap, last>>
    /\ UNCHANGED <<journal, stock, docs, parties, nops>>

\* JournalEntry.objects.create of either opening function
CommitOpening(c) ==
    /\ pc[c] = "txn"
    /\ req[c].op \in {"opening", "view_opening"}
    /\ LET p == req[c].id
           je == IF req[c].op = "opening"
                 THEN post_opening_balance_entry(p)
                 ELSE create_opening_entry_for_party_entry(p, Party[p].opening_balance,
                                                           OpeningSide(p))
       IN IF uniq_journal_per_doc(journal, je)
          THEN /\ journal' = Append(journal, je)
               /\ Finish(c, "posted")
          ELSE /\ UNCHANGED journal
               /\ Finish(c, "error")
    /\ AfterOpening(c)
    /\ UNCHANGED <<accounts, stock, docs, parties, nops>>

Next ==
    \/ \E c \in Callers, i \in 1..(2 * MaxDocs) : Load(c, i)
    \/ \E c \in Callers : BeginPost(c)
    \/ \E c \in Callers : CommitPost(c)
    \/ \E c \in Callers, p \in PartyIds : CreateParty(c, p)
    \/ \E c \in Callers, p \in PartyIds, op \in {"opening", "view_opening"} : CallOpening(c, p, op)
    \/ \E c \in Callers : BeginOpening(c)
    \/ \E c \in Callers : BeginViewOpening(c)
    \/ \E c \in Callers : CommitOpening(c)

Spec == Init /\ [][Next]_vars

\* the same requests served one at a time
NextSerial ==
    \/ \E i \in 1..(2 * MaxDocs) : Load(FirstCaller, i)
    \/ BeginPost(FirstCaller)
    \/ CommitPost(FirstCaller)
    \/ \E p \in PartyIds : CreateParty(FirstCaller, p)
    \/ \E p \in PartyIds, op \in {"opening", "view_opening"} : CallOpening(FirstCaller, p, op)
    \/ BeginOpening(FirstCaller)
    \/ BeginViewOpening(FirstCaller)
    \/ CommitOpening(FirstCaller)

\* drafts that refer to rows of their own tenant only
CrossTenantDraft(d) ==
    \/ d.party # NoParty /\ Party[d.party].owner # d.owner
    \/ d.account # NoAccount /\ d.account.owner # d.owner
    \/ d.account2 # NoAccount /\ d.account2.owner # d.owner
    \/ d.product # NoProduct /\ ProductOwner[d.product] # d.owner
    \/ \E k \in DOMAIN d.lines : ProductOwner[d.lines[k].product] # d.owner

InitSerial ==
    /\ Init
    /\ \A k \in DOMAIN docs : ~CrossTenantDraft(docs[k])

SpecSerial == InitSerial /\ [][NextSerial]_vars

\* ------------------------------------------------------------------------
\* Editing and deleting drafts
\* ------------------------------------------------------------------------
EditKinds == {"SalesInvoice", "PurchaseInvoice"}
SaveKinds == {"DailyExpense", "StockAdjustment"}

\* the items an edit form submits in place of the old ones
EditLines == {<<Line("pA2", 1, 5, 0)>>}

\* sales_edit, purchase_edit ("edit"), sales_delete, purchase_delete
\* ("delete"): tenant_get_object_or_404 and the posted check of the view;
\* "save": a DailyExpense or StockAdjustment row loaded to be changed
LoadEdit(c, i, op) ==
    /\ CanStart(c)
    /\ i \in DOMAIN docs
    /\ docs[i] # Deleted
    /\ \/ op \in {"edit", "delete"} /\ docs[i].kind \in EditKinds
       \/ op = "save" /\ docs[i].kind \in SaveKinds
    /\ nops' = nops + 1
    /\ IF op \in {"edit", "delete"} /\ docs[i].posted
       THEN /\ last' = [last EXCEPT ![c] = [op |-> op, id |-> i, result |-> "noop",
                                                at |-> "loaded"]]
            /\ UNCHANGED <<pc, req>>
       ELSE /\ req' = [req EXCEPT ![c] = [op |-> op, id |-> i, self |-> docs[i], chain |-> FALSE]]
            /\ pc' = [pc EXCEPT ![c] = "loaded"]
            /\ UNCHANGED last
    /\ UNCHANGED <<accounts, journal, stock, docs, parties, snap>>

\* save() of a DailyExpense or StockAdjustment: full_clean() reads the row
\* again and refuses when it is posted
BeginSave(c) ==
    /\ pc[c] = "loaded"
    /\ req[c].op = "save"
    /\ IF docs[req[c].id] # Deleted /\ docs[req[c].id].posted
       THEN /\ pc' = [pc EXCEPT ![c] = "idle"]
            /\ Finish(c, "error")
            /\ req' = [req EXCEPT ![c] = NoReq]
       ELSE /\ pc' = [pc EXCEPT ![c] = "txn"]
            /\ UNCHANGED <<req, snap, last>>
    /\ UNCHANGED <<accounts, journal, stock, docs, parties, nops>>

\* the writes of the request: invoice.save() writes every column of the
\* instance the view loaded and the items are replaced; delete removes the
\* items and the row; super().save() writes every column of the instance
CommitEdit(c) ==
    /\ \/ pc[c] = "loaded" /\ req[c].op \in {"edit", "delete"}
       \/ pc[c] = "txn" /\ req[c].op = "save"
    /\ LET i == req[c].id
           self == req[c].self
       IN \E ls \in EditLines :
             docs' = [docs EXCEPT ![i] =
                        CASE req[c].op = "edit"   -> [self EXCEPT !.lines = ls]
                          [] req[c].op = "delete" -> Deleted
                          [] req[c].op = "save"   -> [self EXCEPT !.date = 1 + (self.date % MaxDate)]]
    /\ pc' = [pc EXCEPT ![c] = "idle"]
    /\ Finish(c, "saved")
    /\ req' = [req EXCEPT ![c] = NoReq]
    /\ UNCHANGED <<accounts, journal, stock, parties, nops>>

\* posting, editing and deleting requests side by side
NextEdit ==
    \/ \E c \in Callers, i \in 1..(2 * MaxDocs) : Load(c, i)
    \/ \E c \in Callers : BeginPost(c)
    \/ \E c \in Callers : CommitPost(c)
    \/ \E c \in Callers, i \in 1..(2 * MaxDocs), op \in {"edit", "delete", "save"} : LoadEdit(c, i, op)
    \/ \E c \in Callers : BeginSave(c)
    \/ \E c \in Callers : CommitEdit(c)

\* the drafts of these behaviours: a credit sale, a purchase, an expense, a
\* write-down
InitEdit ==
    /\ Init
    /\ docs[1] \in {Catalogue[1], Catalogue[7], Catalogue[30], Catalogue[19]}

SpecEdit == InitEdit /\ [][NextEdit]_vars

\* ------------------------------------------------------------------------
\* Calls without a resolved owner
\* ------------------------------------------------------------------------
\* instances whose owner is None
OwnerlessDrafts == <<
    Invoice("SalesInvoice", NoOwner, 1, CustA, <<Line("pA1", 1, 5, 0)>>, "CREDIT", NoAccount, 0, 0, 0),
    Invoice("PurchaseInvoice", NoOwner, 1, SuppA, <<Line("pA1", 1, 4, 0)>>, "CREDIT", NoAccount, 0, 0, 0),
    Return("SalesReturn", NoOwner, 2, CustA, <<Line("pA1", 1, 5, 0)>>),
    Return("PurchaseReturn", NoOwner, 2, SuppA, <<Line("pA1", 1, 4, 0)>>),
    PaymentRow(NoOwner, 2, CustA, Acct("A", "1010"), "IN", 5, FALSE, "", "", 0),
    Expense(NoOwner, 2, Acct("A", "1010"), Acct("A", "5200"), 3),
    Transfer(NoOwner, 1, Acct("A", "1010"), Acct("A", "1020"), 6),
    Adjustment(NoOwner, 2, "pA1", "DOWN", 2, 3) >>

AccountFns == {"get_company_account", "get_owner_account"}
AccountCodes == {"1300", "2100", "3000", "1010"}

\* one call of get_company_account or get_owner_account
GetAccount(c, fn, o, code) ==
    /\ CanStart(c)
    /\ fn \in AccountFns
    /\ LET r == IF fn = "get_company_account"
                THEN get_company_account_call(accounts, o, code)
                ELSE get_owner_account(accounts, o, code)
       IN /\ accounts' = r.accounts
          /\ last' = [last EXCEPT ![c] =
                [op |-> fn, id |-> 0, result |-> r.result,
                 owner |-> o, code |-> code, account |-> r.account]]
    /\ nops' = nops + 1
    /\ UNCHANGED <<journal, stock, docs, parties, pc, req, snap>>

NextOwner ==
    \/ \E c \in Callers, i \in 1..(2 * MaxDocs) : Load(c, i)
    \/ \E c \in Callers : BeginPost(c)
    \/ \E c \in Callers : CommitPost(c)
    \/ \E c \in Callers, fn \in AccountFns, o \in Owners \cup {NoOwner}, code \in AccountCodes :
          GetAccount(c, fn, o, code)

\* the first draft has no owner, the drafts beside it are the companions
InitOwner ==
    /\ accounts = InitAccounts
    /\ journal = InitJournal
    /\ stock = [p \in Products |-> InitStock]
    /\ \E d \in DOMAIN OwnerlessDrafts : \E s \in DraftChoices :
          docs = [k \in 1..MaxDocs |-> IF k = 1 THEN OwnerlessDrafts[d] ELSE Catalogue[s[k]]]
    /\ parties = InitParties
    /\ pc = [c \in Callers |-> "idle"]
    /\ req = [c \in Callers |-> NoReq]
    /\ snap = [c \in Callers |-> NoSnap]
    /\ last = [c \in Callers |-> NoLast]
    /\ nops = 0

SpecOwner == InitOwner /\ [][NextOwner]_vars

TypeOK ==
    /\ accounts \subseteq [owner : Owners, code : SeedCodes]
    /\ \A c \in Callers : pc[c] \in {"idle", "loaded", "txn"}
    /\ nops \in 0..MaxOps

\* ------------------------------------------------------------------------
\* Vocabulary of the properties
\* ------------------------------------------------------------------------
AsOfs == {NoDate} \cup Dates

JEIds(jr, o, rm, rid) ==
    {k \in DOMAIN jr : jr[k].owner = o /\ jr[k].related_model = rm /\ jr[k].related_id = rid}

\* request c ends a post() call in this step
PostEnds(c) == pc[c] \in {"loaded", "txn"} /\ req[c].op = "post" /\ pc'[c] = "idle"

\* request c commits the transaction of a post() call in this step
PostCommits(c) == pc[c] = "txn" /\ req[c].op = "post" /\ pc'[c] = "idle"

\* the document refers to a row of another tenant
CrossTenant(d) == CrossTenantDraft(d)

\* the amount the document posts
DocAmount(d) ==
    IF d.kind \in LineKinds THEN calculate_total(d)
    ELSE IF d.kind = "StockAdjustment" THEN adjustment_amount(d)
    ELSE d.amount

\* C1: post() invoked twice on a stock-moving document leaves exactly one
\* JournalEntry for it and one stock change: a post() that completes on a
\* document that is already posted changes no stock, and a posted document
\* has exactly one entry.
C1_PostTwiceOnce ==
    [][\A c \in Callers :
         (PostEnds(c) /\ docs[req[c].id].kind \in StockKinds
                      /\ DocAmount(docs[req[c].id]) > 0)
         => LET i == req[c].id
                d == docs[i]
            IN /\ (docs'[i].posted =>
                     Cardinality(JEIds(journal', d.owner, d.kind, i)) = 1)
               /\ (d.posted => stock' = stock)]_vars

\* C2: at most one JournalEntry per (owner, related_model, related_id)
C2_UniqueJournalKey ==
    \A i, j \in DOMAIN journal :
        (journal[i].owner = journal[j].owner
         /\ journal[i].related_model = journal[j].related_model
         /\ journal[i].related_id = journal[j].related_id) => i = j

\* a second create for a key that was committed meanwhile has been refused
C2_Witness ==
    \E c \in Callers :
        /\ last[c].result = "error"
        /\ \/ /\ last[c].op = "post"
              /\ docs[last[c].id].posted
              /\ KeyExists(journal, docs[last[c].id].owner, docs[last[c].id].kind, last[c].id)
           \/ /\ last[c].op \in {"opening", "view_opening"}
              /\ KeyExists(journal, Party[last[c].id].owner, "PartyOpening", last[c].id)

\* what tenant t owns and what the reports compute for it
SubSeqOwned(seq, t) == SelectSeq(seq, LAMBDA r : r.owner = t)

TenantReports(jr, accts, t) ==
    [balance |-> [a \in {x \in accts : x.owner = t}, d \in AsOfs |->
                     get_account_balance(jr, t, a, d)],
     ledger  |-> [a \in {x \in accts : x.owner = t}, d \in AsOfs |->
                     get_account_ledger(jr, t, a, NoDate, d)],
     trial   |-> [d \in AsOfs |-> get_trial_balance(jr, accts, t, d)]]

TenantView(jr, accts, st, ds, t) ==
    [accounts |-> {x \in accts : x.owner = t},
     journal  |-> SubSeqOwned(jr, t),
     stock    |-> [p \in {x \in Products : ProductOwner[x] = t} |-> st[p]],
     docs     |-> [k \in {x \in DOMAIN ds : ds[x].owner = t} |-> ds[k]],
     reports  |-> TenantReports(jr, accts, t)]

\* C3: a post() of a document of one tenant leaves what the other tenant
\* owns (its Account, JournalEntry, Product and document rows) and what the
\* ledger reports compute for the other tenant as they were.
C3_TenantIsolation ==
    [][\A c \in Callers :
         PostEnds(c)
         => \A t \in Owners \ {req[c].self.owner} :
              TenantView(journal', accounts', stock', docs', t)
                  = TenantView(journal, accounts, stock, docs, t)]_vars

\* C4: post() on an unposted document that refers to a row of another
\* tenant (party, account, adjusted product or line-item product) raises,
\* and leaves no JournalEntry for the document, every stock as it was and
\* the document unposted.
C4_CrossTenantRaises ==
    [][\A c \in Callers :
         (PostEnds(c) /\ CrossTenant(req[c].self) /\ ~docs[req[c].id].posted)
         => LET i == req[c].id
                d == docs[i]
            IN /\ last'[c].result = "error"
               /\ JEIds(journal', d.owner, d.kind, i) = {}
               /\ stock' = stock
               /\ ~docs'[i].posted]_vars

\* sum of f over a finite set, in no particular order
RECURSIVE SumSet(_, _)
SumSet(S, f) ==
    IF S = {} THEN 0
    ELSE LET x == CHOOSE y \in S : TRUE IN f[x] + SumSet(S \ {x}, f)

\* the tenant's entries dated up to as_of (all of them when as_of is absent)
EntriesUpTo(jr, owner, as_of) ==
    {k \in DOMAIN jr : jr[k].owner = owner /\ (as_of = NoDate \/ jr[k].date <= as_of)}

\* debits minus credits of the account over a set of entries
DebitsMinusCredits(jr, S, account) ==
    SumSet({k \in S : jr[k].debit_account = account}, [k \in DOMAIN jr |-> jr[k].amount])
    - SumSet({k \in S : jr[k].credit_account = account}, [k \in DOMAIN jr |-> jr[k].amount])

\* the balance the claims state for an account
SignedSum(jr, S, account) ==
    IF account_type(account.code) \in {"LIABILITY", "EQUITY", "INCOME"}
    THEN -DebitsMinusCredits(jr, S, account)
    ELSE DebitsMinusCredits(jr, S, account)

\* C5: for every tenant and every as_of, get_trial_balance reports
\* total_debit = total_credit and balanced = TRUE, whatever has been posted.
C5_TrialBalanceBalanced ==
    \A o \in Owners, d \in AsOfs :
        LET tb == get_trial_balance(journal, accounts, o, d)
        IN tb.total_debit = tb.total_credit /\ tb.balanced

\* documents have been posted and the cash account of tenant A, overdrawn,
\* is reported in the credit column
C5_Witness ==
    /\ \E i \in DOMAIN docs : docs[i].posted
    /\ Len(journal) > Len(InitJournal)
    /\ \E k \in DOMAIN get_trial_balance(journal, accounts, "A", NoDate).rows :
          LET r == get_trial_balance(journal, accounts, "A", NoDate).rows[k]
          IN r.code = "1010" /\ r.credit > 0

\* C6: get_account_balance is debits minus credits of the account (negated
\* for LIABILITY, EQUITY and INCOME accounts) over exactly the tenant's
\* entries dated up to as_of, whatever the order they are summed in.
C6_BalanceIsSignedSum ==
    \A a \in accounts, d \in AsOfs :
        get_account_balance(journal, a.owner, a, d) = SignedSum(journal, EntriesUpTo(journal, a.owner, d), a)

\* an account of tenant A has entries on both sides, one of them dated after
\* an as_of that therefore must not count it
C6_Witness ==
    \E a \in accounts, d \in Dates :
        /\ \E k \in EntriesUpTo(journal, a.owner, d) : journal[k].debit_account = a
        /\ \E k \in EntriesUpTo(journal, a.owner, d) : journal[k].credit_account = a
        /\ \E k \in DOMAIN journal : journal[k].date > d /\ journal[k].credit_account = a
        /\ ~is_debit_normal(a)

\* the tenant's entries that touch the account within the range
EntriesInRange(jr, a, start, end) ==
    {k \in DOMAIN jr :
        /\ jr[k].owner = a.owner
        /\ (jr[k].debit_account = a \/ jr[k].credit_account = a)
        /\ (start = NoDate \/ jr[k].date >= start)
        /\ (end = NoDate \/ jr[k].date <= end)}

\* the tenant's entries dated strictly before start
EntriesBefore(jr, a, start) ==
    {k \in DOMAIN jr : jr[k].owner = a.owner /\ jr[k].date < start}

\* entry e comes before entry f in (date, id) order
DateIdBefore(jr, e, f) ==
    jr[e].date < jr[f].date \/ (jr[e].date = jr[f].date /\ e < f)

\* what C7 states of get_account_ledger(account a, start, end)
LedgerAsStated(jr, a, start, end) ==
    LET rows == get_account_ledger(jr, a.owner, a, start, end)
        S == EntriesInRange(jr, a, start, end)
        opening == IF start = NoDate THEN 0 ELSE SignedSum(jr, EntriesBefore(jr, a, start), a)
        off == IF start = NoDate THEN 0 ELSE 1
        EntryAt(k) == CHOOSE e \in S : Cardinality({f \in S : DateIdBefore(jr, f, e)}) = k - 1
    IN /\ Len(rows) = off + Cardinality(S)
       /\ start # NoDate => rows[1] = LedgerRow(start, 0, 0, opening, "", 0)
       /\ \A k \in 1..Cardinality(S) :
             LET e == EntryAt(k)
                 r == rows[off + k]
                 previous == IF k = 1 THEN opening ELSE rows[off + k - 1].balance
             IN /\ r.date = jr[e].date
                /\ r.related_model = jr[e].related_model
                /\ r.related_id = jr[e].related_id
                /\ r.debit = (IF jr[e].debit_account = a THEN jr[e].amount ELSE 0)
                /\ r.credit = (IF jr[e].credit_account = a THEN jr[e].amount ELSE 0)
                /\ r.balance = previous + SignedSum(jr, {e}, a)
       /\ rows # << >> =>
             rows[Len(rows)].balance = get_account_balance(jr, a.owner, a, end)

\* C7 as stated: for every account and every pair (start, end), the ledger
\* opens with the signed sum of the entries before start, lists the entries
\* of the range in (date, id) order with a running balance, and its last
\* balance is get_account_balance(as_of = end).
C7_LedgerEveryPair ==
    \A a \in accounts, start \in AsOfs, end \in AsOfs : LedgerAsStated(journal, a, start, end)

\* the ledger is as stated for every range whose start is not after its end
\* (either may be absent)
LedgerOrderedRanges(jr, accts) ==
    \A a \in accts, start \in AsOfs, end \in AsOfs :
        (start = NoDate \/ end = NoDate \/ start <= end) => LedgerAsStated(jr, a, start, end)

\* C7 as amended: for every account and every range whose start is not after
\* its end, the ledger opens with the signed sum of the entries before start,
\* lists the entries of the range in (date, id) order with a running balance,
\* and its last balance is get_account_balance(as_of = end).  The ledger is
\* a function of the journal and the chart, so it is examined at the start
\* and whenever one of them changes.
C7_LedgerOrderedRange ==
    /\ LedgerOrderedRanges(journal, accounts)
    /\ [][(journal' # journal \/ accounts' # accounts)
            => LedgerOrderedRanges(journal', accounts')]_vars

\* after a post, an account has an entry before the start of a range and two
\* entries of one date inside it
C7_Witness ==
    /\ \E i \in DOMAIN docs : docs[i].posted
    /\ \E a \in accounts, start \in Dates, end \in Dates :
          /\ start <= end
          /\ \E k \in EntriesBefore(journal, a, start) :
                journal[k].debit_account = a \/ journal[k].credit_account = a
          /\ \E e, f \in EntriesInRange(journal, a, start, end) :
                e # f /\ journal[e].date = journal[f].date

\* the total C8 states: qty * price - discount over the lines, plus freight
\* and other charges for a PurchaseInvoice
StatedTotal(d) ==
    SumSet(DOMAIN d.lines,
           [k \in DOMAIN d.lines |->
               d.lines[k].quantity_units * d.lines[k].unit_price - d.lines[k].discount_amount])
    + (IF d.kind = "PurchaseInvoice" THEN d.freight_charges + d.other_charges ELSE 0)

\* the debit and credit account C8 states for each kind
StatedLineAccounts(d) ==
    CASE d.kind = "SalesInvoice"    -> <<Acct(d.owner, "1300"), Acct(d.owner, "1200")>>
      [] d.kind = "PurchaseInvoice" -> <<Acct(d.owner, "1200"), Acct(d.owner, "2100")>>
      [] d.kind = "SalesReturn"     -> <<Acct(d.owner, "1200"), Acct(d.owner, "1300")>>
      [] d.kind = "PurchaseReturn"  -> <<Acct(d.owner, "2100"), Acct(d.owner, "1200")>>

\* C8: a post() that succeeds on an unposted SalesInvoice, PurchaseInvoice,
\* SalesReturn or PurchaseReturn of positive total creates the one
\* JournalEntry of the document, of the stated amount and accounts; for a
\* credit SalesInvoice the Customer-Control balance rises by the total.
C8_LineDocumentEntry ==
    [][\A c \in Callers :
         (PostCommits(c) /\ docs[req[c].id].kind \in LineKinds
                         /\ ~docs[req[c].id].posted
                         /\ StatedTotal(docs[req[c].id]) > 0
                         /\ last'[c].result = "posted")
         => LET i == req[c].id
                d == docs[i]
                new == JEIds(journal', d.owner, d.kind, i)
                control == Acct(d.owner, "1300")
            IN /\ JEIds(journal, d.owner, d.kind, i) = {}
               /\ Cardinality(new) = 1
               /\ \A k \in new :
                     /\ journal'[k].amount = StatedTotal(d)
                     /\ journal'[k].debit_account = StatedLineAccounts(d)[1]
                     /\ journal'[k].credit_account = StatedLineAccounts(d)[2]
               /\ (d.kind = "SalesInvoice" /\ d.payment_type = "CREDIT")
                     => get_account_balance(journal', d.owner, control, NoDate)
                          = get_account_balance(journal, d.owner, control, NoDate)
                            + StatedTotal(d)]_vars

\* a request has posted a PurchaseInvoice that carries freight and other
\* charges
C8_Witness ==
    /\ \E i \in DOMAIN docs :
          /\ docs[i].kind = "PurchaseInvoice" /\ docs[i].posted
          /\ docs[i].freight_charges + docs[i].other_charges > 0
          /\ JEIds(journal, docs[i].owner, "PurchaseInvoice", i) # {}
    /\ \E c \in Callers : last[c].result = "posted"

\* the signed quantity a document's lines state for a product
StatedStockChange(d, p) ==
    (IF d.kind \in {"SalesInvoice", "PurchaseReturn"} THEN -1 ELSE 1)
    * SumSet({k \in DOMAIN d.lines : d.lines[k].product = p},
             [k \in DOMAIN d.lines |-> d.lines[k].quantity_units])

\* C9: a post() that succeeds on an unposted SalesInvoice, PurchaseInvoice,
\* SalesReturn or PurchaseReturn, no other request having moved stock since
\* it read the products, changes every product's stock by the signed sum of
\* quantity_units over all the lines of the document that name the product.
C9_StockBySignedLineSum ==
    [][\A c \in Callers :
         (PostCommits(c) /\ docs[req[c].id].kind \in LineKinds
                         /\ ~docs[req[c].id].posted
                         /\ snap[c].stock = stock
                         /\ last'[c].result = "posted")
         => \A p \in Products :
               stock'[p] = stock[p] + StatedStockChange(docs[req[c].id], p)]_vars

\* the debit and credit account C10 states for each kind
StatedCashAccounts(d) ==
    LET control == Acct(d.owner, IF d.party # NoParty /\ Party[d.party].party_type = "SUPPLIER"
                                 THEN "2100" ELSE "1300")
        equity == Acct(d.owner, "3000")
    IN CASE d.kind = "Payment" /\ d.is_adjustment /\ d.adjustment_side = "DR" -> <<control, equity>>
         [] d.kind = "Payment" /\ d.is_adjustment /\ d.adjustment_side = "CR" -> <<equity, control>>
         [] d.kind = "Payment" /\ ~d.is_adjustment /\ d.direction = "IN"  -> <<d.account, control>>
         [] d.kind = "Payment" /\ ~d.is_adjustment /\ d.direction = "OUT" -> <<control, d.account>>
         [] d.kind = "DailyExpense"     -> <<d.account2, d.account>>
         [] d.kind = "CashBankTransfer" -> <<d.account2, d.account>>

CashKinds == {"Payment", "DailyExpense", "CashBankTransfer"}

\* C10: every Payment (normal IN or OUT, adjustment DR or CR), DailyExpense
\* or CashBankTransfer of positive amount that a step posts gets its one
\* JournalEntry in that step, of the document's amount and of the stated
\* accounts, and a post() of such a document changes no stock.
C10_CashDocumentEntry ==
    [][/\ \A j \in DOMAIN docs' :
            (docs'[j].kind \in CashKinds /\ docs'[j].posted /\ docs'[j].amount > 0
               /\ (docs'[j].is_adjustment => docs'[j].adjustment_side \in {"DR", "CR"})
               /\ (j \in DOMAIN docs => ~docs[j].posted))
            => LET d == docs'[j]
                   new == JEIds(journal', d.owner, d.kind, j)
               IN /\ JEIds(journal, d.owner, d.kind, j) = {}
                  /\ Cardinality(new) = 1
                  /\ \A k \in new :
                        /\ journal'[k].amount = d.amount
                        /\ journal'[k].debit_account = StatedCashAccounts(d)[1]
                        /\ journal'[k].credit_account = StatedCashAccounts(d)[2]
       /\ \A c \in Callers :
            (PostEnds(c) /\ docs[req[c].id].kind \in CashKinds) => stock' = stock]_vars

\* a request has posted a normal Payment OUT and its entry credits the cash
\* or bank account
C10_Witness ==
    \E c \in Callers :
        /\ last[c].op = "post" /\ last[c].result = "posted"
        /\ LET d == docs[last[c].id]
           IN /\ d.kind = "Payment" /\ ~d.is_adjustment /\ d.direction = "OUT"
              /\ \E k \in JEIds(journal, d.owner, "Payment", last[c].id) :
                    journal[k].credit_account = d.account

\* the debit and credit account C11 states for each direction
StatedAdjustmentAccounts(d) ==
    IF d.direction = "DOWN" THEN <<Acct(d.owner, "5100"), Acct(d.owner, "1200")>>
                            ELSE <<Acct(d.owner, "1200"), Acct(d.owner, "3000")>>

\* C11: a post() that succeeds on an unposted StockAdjustment with qty > 0
\* and unit_cost > 0, no other request having moved stock since it read the
\* product, creates the one JournalEntry of q * c that debits Write-off
\* (5100) and credits Inventory (1200) for DOWN, debits Inventory and credits
\* Opening Balances (3000) for UP, raises the balance of the debited account
\* by q * c, and lowers (DOWN) or raises (UP) the product's stock by q.
C11_StockAdjustmentPosting ==
    [][\A c \in Callers :
         (PostCommits(c) /\ docs[req[c].id].kind = "StockAdjustment"
                         /\ ~docs[req[c].id].posted
                         /\ docs[req[c].id].qty > 0 /\ docs[req[c].id].unit_cost > 0
                         /\ snap[c].stock = stock
                         /\ last'[c].result = "posted")
         => LET i == req[c].id
                d == docs[i]
                new == JEIds(journal', d.owner, "StockAdjustment", i)
                dr == StatedAdjustmentAccounts(d)[1]
            IN /\ JEIds(journal, d.owner, "StockAdjustment", i) = {}
               /\ Cardinality(new) = 1
               /\ \A k \in new :
                     /\ journal'[k].amount = d.qty * d.unit_cost
                     /\ journal'[k].debit_account = dr
                     /\ journal'[k].credit_account = StatedAdjustmentAccounts(d)[2]
               /\ get_account_balance(journal', d.owner, dr, NoDate)
                    = get_account_balance(journal, d.owner, dr, NoDate) + d.qty * d.unit_cost
               /\ stock'[d.product] = (IF d.direction = "DOWN" THEN stock[d.product] - d.qty
                                                               ELSE stock[d.product] + d.qty)
               /\ docs'[i].posted]_vars

\* a request has posted a write-down of 2 units of pA1 at cost 3: the entry
\* debits 5100 by 6 and the stock fell from 10 to 8
C11_Witness ==
    \E c \in Callers :
        /\ last[c].op = "post" /\ last[c].result = "posted"
        /\ LET d == docs[last[c].id]
           IN /\ d.kind = "StockAdjustment" /\ d.direction = "DOWN" /\ d.posted
              /\ stock[d.product] = InitStock - d.qty
              /\ \E k \in JEIds(journal, d.owner, "StockAdjustment", last[c].id) :
                    /\ journal[k].debit_account = Acct(d.owner, "5100")
                    /\ journal[k].amount = d.qty * d.unit_cost

\* the document fails a check post() makes before it computes the total
FailsEarlyCheck(d) ==
    /\ d.kind \in LineKinds
    /\ \/ d.party # NoParty /\ Party[d.party].owner # d.owner
       \/ d.account # NoAccount /\ d.account.owner # d.owner

\* post() is called on an instance that is posted or has nothing to post
NothingToPost(self) == self.posted \/ DocAmount(self) <= 0

C13_FailedPostRollsBack ==
    [][\A c \in Callers :
         (PostCommits(c) /\ last'[c].result = "error")
         => LET i == req[c].id
                d == docs[i]
            IN /\ accounts' = accounts /\ journal' = journal
               /\ stock' = stock /\ docs' = docs
               /\ (~d.posted /\ JEIds(journal, d.owner, d.kind, i) = {}
                             /\ ~PaymentExists(docs, d.owner, d.kind, i))
                  => /\ JEIds(journal', d.owner, d.kind, i) = {}
                     /\ ~PaymentExists(docs', d.owner, d.kind, i)
                     /\ ~docs'[i].posted]_vars

\* a post() has raised on a PurchaseInvoice, SalesReturn or PurchaseReturn
\* whose first line moves a product of the owner and whose second line names
\* a product of another tenant: no entry, no stock change, still unposted
C13_Witness ==
    \E c \in Callers :
        /\ last[c].op = "post" /\ last[c].result = "error"
        /\ LET d == docs[last[c].id]
           IN /\ d.kind \in {"PurchaseInvoice", "SalesReturn", "PurchaseReturn"}
              /\ Len(d.lines) = 2
              /\ ProductOwner[d.lines[1].product] = d.owner /\ d.lines[1].quantity_units > 0
              /\ ProductOwner[d.lines[2].product] # d.owner
              /\ ~d.posted
              /\ JEIds(journal, d.owner, d.kind, last[c].id) = {}
              /\ stock = [p \in Products |-> InitStock]

\* the document states C14 names: an adjustment without a party or without
\* a side, a normal payment without an account, a transfer between one
\* account and itself
InvalidDocumentState(d) ==
    \/ d.kind = "Payment" /\ d.is_adjustment
         /\ (d.party = NoParty \/ d.adjustment_side \notin {"DR", "CR"})
    \/ d.kind = "Payment" /\ ~d.is_adjustment /\ d.account = NoAccount
    \/ d.kind = "CashBankTransfer" /\ d.account = d.account2

\* C14: post() on an unposted Payment or CashBankTransfer of positive amount
\* that is in one of those states fails with an error, creates no
\* JournalEntry for the document and leaves it unposted.
C14_InvalidStateFails ==
    [][\A c \in Callers :
         (PostEnds(c) /\ InvalidDocumentState(req[c].self)
                      /\ ~req[c].self.posted /\ req[c].self.amount > 0)
         => LET i == req[c].id
                d == docs[i]
            IN /\ last'[c].result = "error"
               /\ JEIds(journal', d.owner, d.kind, i) = {}
               /\ ~docs'[i].posted]_vars

\* the auxiliary Payments of invoice i
AuxPayments(ds, i) ==
    {j \in DOMAIN ds : /\ ds[j].kind = "Payment" /\ ds[j].owner = ds[i].owner
                       /\ ds[j].related_model = ds[i].kind /\ ds[j].related_id = i}

\* C15: for a SalesInvoice or PurchaseInvoice with payment_type FULL or
\* PARTIAL and payment_amount > 0, in every reachable state at most one
\* auxiliary Payment linked to the invoice exists and at most one
\* JournalEntry sourced from that Payment.
C15_OneAuxiliaryPayment ==
    \A i \in DOMAIN docs :
        (docs[i].kind \in {"SalesInvoice", "PurchaseInvoice"}
           /\ docs[i].payment_type \in {"FULL", "PARTIAL"} /\ docs[i].payment_amount > 0)
        => /\ Cardinality(AuxPayments(docs, i)) <= 1
           /\ \A j \in AuxPayments(docs, i) :
                 Cardinality(JEIds(journal, docs[j].owner, "Payment", j)) <= 1

\* two requests have called post() on the same paid invoice: the one
\* auxiliary Payment and its one JournalEntry exist
C15_Witness ==
    \E i \in DOMAIN docs :
        /\ docs[i].kind \in {"SalesInvoice", "PurchaseInvoice"}
        /\ docs[i].payment_type \in {"FULL", "PARTIAL"} /\ docs[i].payment_amount > 0
        /\ \A c \in Callers : last[c].op = "post" /\ last[c].id = i
        /\ Cardinality(AuxPayments(docs, i)) = 1
        /\ \A j \in AuxPayments(docs, i) :
              Cardinality(JEIds(journal, docs[j].owner, "Payment", j)) = 1

\* C16: a post() that succeeds on an unposted SalesInvoice or
\* PurchaseInvoice whose payment_type is not CREDIT and whose payment_amount
\* is positive leaves a posted auxiliary Payment linked to the invoice
\* (direction IN for a sale, OUT for a purchase, amount = payment_amount,
\* party = the invoice's party) with its JournalEntry; with payment_type
\* CREDIT it leaves no auxiliary Payment.
C16_AuxiliaryPaymentCreated ==
    [][\A c \in Callers :
         (PostCommits(c) /\ docs[req[c].id].kind \in {"SalesInvoice", "PurchaseInvoice"}
                         /\ ~docs[req[c].id].posted
                         /\ last'[c].result = "posted")
         => LET i == req[c].id
                d == docs[i]
            IN /\ (d.payment_type # "CREDIT" /\ d.payment_amount > 0)
                  => \E j \in AuxPayments(docs', i) :
                        /\ docs'[j].posted
                        /\ docs'[j].direction = (IF d.kind = "SalesInvoice" THEN "IN" ELSE "OUT")
                        /\ docs'[j].amount = d.payment_amount
                        /\ docs'[j].party = d.party
                        /\ JEIds(journal', d.owner, "Payment", j) # {}
               /\ d.payment_type = "CREDIT" => AuxPayments(docs', i) = {}]_vars

\* how the rule of C17 classes a document
DocClass(d) ==
    CASE d.kind = "Payment" /\ ~d.is_adjustment /\ d.direction = "IN"  -> "receipt"
      [] d.kind = "Payment" /\ ~d.is_adjustment /\ d.direction = "OUT" -> "paid_out"
      [] d.kind = "Payment" /\ d.is_adjustment /\ d.adjustment_side = "DR" -> "adj_dr"
      [] d.kind = "Payment" /\ d.is_adjustment /\ d.adjustment_side = "CR" -> "adj_cr"
      [] OTHER -> d.kind

\* the sum of the posted documents of one class of a party, dated <= as_of
PostedSum(ds, p, as_of, class) ==
    SumSet({j \in DOMAIN ds : /\ ds[j].posted /\ ds[j].party = p
                              /\ ds[j].owner = Party[p].owner
                              /\ DocClass(ds[j]) = class
                              /\ (as_of # NoDate => ds[j].date <= as_of)},
           [j \in DOMAIN ds |-> DocAmount(ds[j])])

\* the balance C17 states: customers debit-positive, suppliers credit-positive
StatedPartyBalance(ds, p, as_of) ==
    LET party == Party[p]
        T(class) == PostedSum(ds, p, as_of, class)
    IN IF party.party_type = "CUSTOMER"
       THEN (IF party.opening_balance_is_debit THEN party.opening_balance
                                               ELSE -party.opening_balance)
            + T("SalesInvoice") - T("SalesReturn") - T("receipt")
            + T("adj_dr") - T("adj_cr")
       ELSE (IF party.opening_balance_is_debit THEN -party.opening_balance
                                               ELSE party.opening_balance)
            + T("PurchaseInvoice") - T("PurchaseReturn") - T("paid_out")
            - T("adj_dr") + T("adj_cr")

\* the party has only posted payments of the classes the rule of C17 lists
OnlyListedPayments(ds, p) ==
    \A j \in DOMAIN ds :
        (ds[j].kind = "Payment" /\ ds[j].party = p /\ ds[j].posted)
        => DocClass(ds[j]) \in (IF Party[p].party_type = "CUSTOMER"
                                THEN {"receipt", "adj_dr", "adj_cr"}
                                ELSE {"paid_out", "adj_dr", "adj_cr"})

\* C17: for every party and every as_of date, get_party_balance equals the
\* stored opening balance (customers: positive if debit; suppliers: positive
\* if credit) plus the posted invoices, minus the posted returns, minus the
\* posted receipts (customers) or payments out (suppliers), plus and minus
\* the posted adjustments, dated <= as_of, for every set of posted documents
\* including the empty set; unposted documents never contribute.
C17_PartyBalanceIsOpeningPlusDocuments ==
    \A p \in parties : \A as_of \in AsOfs :
        OnlyListedPayments(docs, p)
        => get_party_balance(docs, Party[p].owner, p, as_of)
             = StatedPartyBalance(docs, p, as_of)

\* C18: a document whose posted flag is true in the database keeps it true,
\* keeps its line items and is not deleted, in every step of every
\* interleaving of post() with edit, delete and save requests.
C18_PostedIsFinal ==
    [][\A i \in DOMAIN docs :
         docs[i].posted
         => /\ docs'[i] # Deleted
            /\ docs'[i].posted
            /\ docs'[i].lines = docs[i].lines]_vars

\* C19: no posting request and no opening-balance request updates or deletes
\* a JournalEntry: every step leaves the rows already committed as they
\* were, in their order, and at most appends rows after them.
C19_JournalAppendOnly ==
    [][/\ Len(journal') >= Len(journal)
       /\ \A k \in DOMAIN journal : journal'[k] = journal[k]]_vars

\* two requests have each posted a document: the journal holds the two
\* opening entries it started with, followed by the rows the posts appended
C19_Witness ==
    /\ Len(journal) >= Len(InitJournal) + 2
    /\ \A k \in DOMAIN InitJournal : journal[k] = InitJournal[k]
    /\ \A c \in Callers : last[c].op = "post" /\ last[c].result = "posted"

\* C20: without a resolved owner every engine operation fails and creates or
\* returns nothing: a get-or-create of an account by code ends in error and
\* returns no account, post() of an unposted document of positive amount
\* ends in error and leaves it unposted, and no account and no JournalEntry
\* without owner ever exists.
C20_UnresolvedOwnerFails ==
    /\ \A c \in Callers :
          (last[c].op \in AccountFns /\ last[c].owner = NoOwner)
          => last[c].result = "error" /\ last[c].account = NoAccount
    /\ \A c \in Callers :
          (last[c].op = "post" /\ docs[last[c].id].owner = NoOwner
                               /\ DocAmount(docs[last[c].id]) > 0)
          => last[c].result = "error" /\ ~docs[last[c].id].posted
    /\ \A a \in accounts : a.owner # NoOwner
    /\ \A k \in DOMAIN journal : journal[k].owner # NoOwner

\* C21: when two requests hold an unposted instance of the same DailyExpense,
\* CashBankTransfer or StockAdjustment and both call post(), the one that
\* locks the row second finds it posted and returns: it creates no
\* JournalEntry, moves no stock and changes no row, and the document is left
\* with exactly one entry.
C21_SecondLockerReturns ==
    [][\A c \in Callers :
         (PostCommits(c) /\ req[c].self.kind \in LockedKinds
                         /\ ~req[c].self.posted
                         /\ docs[req[c].id].posted)
         => LET i == req[c].id
            IN /\ last'[c].result = "noop"
               /\ journal' = journal
               /\ stock' = stock
               /\ docs' = docs
               /\ Cardinality(JEIds(journal', docs[i].owner, docs[i].kind, i)) = 1]_vars

\* one request has posted the document, the other passed the check of its
\* own instance, locked the row after that commit and returned
C21_Witness ==
    \E c, d \in Callers :
        /\ c # d
        /\ last[c].op = "post" /\ last[c].result = "posted"
        /\ last[d].op = "post" /\ last[d].result = "noop" /\ last[d].at = "txn"
        /\ last[d].id = last[c].id
        /\ docs[last[c].id].kind \in LockedKinds
        /\ docs[last[c].id].posted
        /\ Cardinality(JEIds(journal, docs[last[c].id].owner, docs[last[c].id].kind,
                             last[c].id)) = 1

\* the signed quantity a stock-moving document states for a product
StatedDelta(d, p) ==
    IF d.kind = "StockAdjustment"
    THEN (IF d.product = p THEN (IF d.direction = "DOWN" THEN -d.qty ELSE d.qty) ELSE 0)
    ELSE StatedStockChange(d, p)

\* no two lines of the document name the same product
DistinctProducts(d) ==
    \A k, m \in DOMAIN d.lines : d.lines[k].product = d.lines[m].product => k = m

\* C22: when a post() of an unposted stock-moving document commits after
\* another request has committed a stock change that it did not see when it
\* read the products, every product's stock is the committed stock plus the
\* document's signed quantity: the delta of neither document is lost.
C22_NoLostStockUpdate ==
    [][\A c \in Callers :
         (PostCommits(c) /\ docs[req[c].id].kind \in StockKinds
                         /\ ~docs[req[c].id].posted
                         /\ DistinctProducts(docs[req[c].id])
                         /\ snap[c].stock # stock
                         /\ last'[c].result = "posted")
         => \A p \in Products :
               stock'[p] = stock[p] + StatedDelta(docs[req[c].id], p)]_vars

\* ------------------------------------------------------------------------
\* Stock replay (core/views.py)
\* ------------------------------------------------------------------------
\* Sum("quantity_units") over the items of one document that name the product
RECURSIVE ItemQuantity(_, _)
ItemQuantity(lines, product) ==
    IF lines = << >> THEN 0
    ELSE (IF Head(lines).product = product THEN Head(lines).quantity_units ELSE 0)
         + ItemQuantity(Tail(lines), product)

\* the aggregate over the posted documents of one class: items are filtered
\* by owner = product.owner, and an item carries the owner of its document
RECURSIVE PostedQuantity(_, _, _, _)
PostedQuantity(ds, k, kind, product) ==
    IF k = 0 THEN 0
    ELSE (IF ds[k].kind = kind /\ ds[k].posted /\ ds[k].owner = ProductOwner[product]
          THEN ItemQuantity(ds[k].lines, product) ELSE 0)
         + PostedQuantity(ds, k - 1, kind, product)

\* StockAdjustment.objects.filter(owner, product, posted=True, direction)
\* .aggregate(Sum("qty"))
RECURSIVE PostedAdjustment(_, _, _, _)
PostedAdjustment(ds, k, direction, product) ==
    IF k = 0 THEN 0
    ELSE (IF /\ ds[k].kind = "StockAdjustment" /\ ds[k].posted
             /\ ds[k].owner = ProductOwner[product]
             /\ ds[k].product = product /\ ds[k].direction = direction
          THEN ds[k].qty ELSE 0)
         + PostedAdjustment(ds, k - 1, direction, product)

get_current_stock_including_adjustments(ds, product) ==
    LET purchases_in == PostedQuantity(ds, Len(ds), "PurchaseInvoice", product)
        purch_returns_out == PostedQuantity(ds, Len(ds), "PurchaseReturn", product)
        sales_out == PostedQuantity(ds, Len(ds), "SalesInvoice", product)
        sales_returns_in == PostedQuantity(ds, Len(ds), "SalesReturn", product)
        adj_up == PostedAdjustment(ds, Len(ds), "UP", product)
        adj_down == PostedAdjustment(ds, Len(ds), "DOWN", product)
    IN purchases_in + sales_returns_in - sales_out - purch_returns_out + adj_up - adj_down

\* C23: in every state each product's current_stock differs from the stock
\* it was created with by the replay sum over the posted documents, the
\* value of get_current_stock_including_adjustments.
C23_StockIsReplaySum ==
    \A p \in Products :
        stock[p] - InitStock = get_current_stock_including_adjustments(docs, p)

\* ------------------------------------------------------------------------
\* Opening balance of a cash or bank account (core/views.py)
\* ------------------------------------------------------------------------
\* the cash and bank accounts the account form is submitted for; the id of an
\* Account row is its position here
OpeningAccounts == <<Acct("A", "1010"), Acct("A", "1020"), Acct("B", "1010")>>
OpeningAmounts == {0, 5}
OpeningSides == {"DR", "CR"}

\* create_opening_entry_for_cash_account: the entry it creates
create_opening_entry_for_cash_account_entry(k, amt, side) ==
    LET account == OpeningAccounts[k]
        opening_acct == Acct(account.owner, "3000")
    IN IF side = "CR"
       THEN JE(account.owner, Today, opening_acct, account, amt, "AccountOpening", k)
       ELSE JE(account.owner, Today, account, opening_acct, amt, "AccountOpening", k)

\* create_opening_entry_for_cash_account(request, account, amount, side)
AccountOpening(c, k, amt, side) ==
    /\ CanStart(c)
    /\ k \in DOMAIN OpeningAccounts
    /\ OpeningAccounts[k] \in accounts
    /\ LET account == OpeningAccounts[k]
           owner == account.owner
           has_any_entries ==
               \E j \in DOMAIN journal :
                   /\ journal[j].owner = owner
                   /\ (journal[j].debit_account = account \/ journal[j].credit_account = account)
           je == create_opening_entry_for_cash_account_entry(k, amt, side)
           result == IF amt <= 0 \/ has_any_entries THEN "noop" ELSE "posted"
       IN /\ accounts' = IF amt <= 0 THEN accounts ELSE accounts \cup {Acct(owner, "3000")}
          /\ journal' = IF result = "posted" THEN Append(journal, je) ELSE journal
          /\ last' = [last EXCEPT ![c] = [op |-> "account_opening", id |-> k,
                                          result |-> result, at |-> "loaded"]]
    /\ nops' = nops + 1
    /\ UNCHANGED <<stock, docs, parties, pc, req, snap>>

\* every request that writes the journal, one at a time, over all the drafts
NextBooks ==
    \/ \E i \in 1..(2 * MaxDocs) : Load(FirstCaller, i)
    \/ BeginPost(FirstCaller)
    \/ CommitPost(FirstCaller)
    \/ \E p \in PartyIds : CreateParty(FirstCaller, p)
    \/ \E p \in PartyIds, op \in {"opening", "view_opening"} : CallOpening(FirstCaller, p, op)
    \/ BeginOpening(FirstCaller)
    \/ BeginViewOpening(FirstCaller)
    \/ CommitOpening(FirstCaller)
    \/ \E k \in DOMAIN OpeningAccounts, amt \in OpeningAmounts, side \in OpeningSides :
          AccountOpening(FirstCaller, k, amt, side)

SpecBooks == Init /\ [][NextBooks]_vars

\* C24: every JournalEntry has a positive amount and a debit and a credit
\* account of the tenant that owns the entry, whether a document's post(),
\* the opening balance of a party or the opening balance of an account
\* created it.
C24_EntriesPositiveAndOwned ==
    \A k \in DOMAIN journal :
        /\ journal[k].amount > 0
        /\ journal[k].debit_account.owner = journal[k].owner
        /\ journal[k].credit_account.owner = journal[k].owner

\* the journal holds the opening entry of a party, the opening entry of an
\* account and the entry of a posted document
C24_Witness ==
    /\ \E k \in DOMAIN journal : journal[k].related_model = "PartyOpening"
    /\ \E k \in DOMAIN journal : journal[k].related_model = "AccountOpening"
    /\ \E k \in DOMAIN journal :
          /\ journal[k].related_model \notin {"PartyOpening", "AccountOpening"}
          /\ docs[journal[k].related_id].posted

\* ------------------------------------------------------------------------
\* The chart of accounts by itself
\*
\* In these behaviours accounts holds the Account rows with all their
\* columns, in id order.  txn names the request whose open transaction
\* inserted the row ("" once committed): the row is invisible to the lookups
\* of other requests, and an insert of the same (owner, code) by another
\* request waits on the unique index until that transaction commits.
\* ------------------------------------------------------------------------
\* required of seed_default_accounts_for_owner
required == <<
    [code |-> "1200", name |-> "Inventory"],
    [code |-> "1300", name |-> "Customer Control"],
    [code |-> "2100", name |-> "Supplier Control"],
    [code |-> "3000", name |-> "Opening Balances"],
    [code |-> "5100", name |-> "Inventory Write-off (Damage/Expiry)"],
    [code |-> "1010", name |-> "Cash"],
    [code |-> "1020", name |-> "Bank"],
    [code |-> "5200", name |-> "Wages / Staff Salaries"] >>

AccountRow(o, code, name, type, is_cb, allow_pay, t) ==
    [owner |-> o, code |-> code, name |-> name, account_type |-> type,
     is_cash_or_bank |-> is_cb, allow_for_payments |-> allow_pay, txn |-> t]

\* the row get_or_create inserts for required[k] with the defaults every
\* caller passes
DefaultRow(o, k, t) ==
    AccountRow(o, required[k].code, required[k].name, account_type(required[k].code),
               is_cash_or_bank(required[k].code), is_cash_or_bank(required[k].code), t)

\* an index that accepts a second row for the same owner and code
unique_account_code_per_owner_absent(rows, o, code) == TRUE

\* constraint unique_account_code_per_owner: TRUE when the insert is accepted
unique_account_code_per_owner(rows, o, code) ==
    ~\E j \in DOMAIN rows : rows[j].owner = o /\ rows[j].code = code

\* Account.objects.get(owner, code) as request c sees the table: the id of
\* the row, 0 when there is none
AccountLookup(rows, c, o, code) ==
    LET S == {j \in DOMAIN rows : rows[j].owner = o /\ rows[j].code = code
                                  /\ rows[j].txn \in {"", c}}
    IN IF S = {} THEN 0 ELSE CHOOSE j \in S : \A m \in S : j <= m

\* the loop body of seed_default_accounts_for_owner after get_company_account:
\* the four columns are set to the required values when one of them differs
SeedUpdate(rows, j, k) ==
    [rows EXCEPT ![j] = [DefaultRow(@.owner, k, @.txn) EXCEPT !.code = rows[j].code]]

\* COMMIT of request c
CommitRows(rows, c) ==
    [j \in DOMAIN rows |-> IF rows[j].txn = c THEN [rows[j] EXCEPT !.txn = ""] ELSE rows[j]]

ChartOps == {"get_company_account", "seed"}

\* the tenant whose signup and seeding commands run in these behaviours; the
\* other tenant's accounts are created on demand only
SeededOwner == "A"

\* a request calls get_company_account(owner, required[k].code) or
\* seed_default_accounts_for_owner(owner)
StartChart(c, op, o, k) ==
    /\ CanStart(c)
    /\ op \in ChartOps
    /\ k \in DOMAIN required
    /\ op = "seed" => (k = 1 /\ o = SeededOwner)
    /\ req' = [req EXCEPT ![c] = [op |-> op, id |-> k, owner |-> o, self |-> BlankDoc,
                                  chain |-> FALSE]]
    /\ pc' = [pc EXCEPT ![c] = "loaded"]
    /\ nops' = nops + 1
    /\ UNCHANGED <<accounts, journal, stock, docs, parties, snap, last>>

\* what follows once request c holds row j for required[req[c].id]; rows is
\* the table after its insert, if it made one
ChartAdvance(c, rows, j, created) ==
    LET k == req[c].id
    IN IF req[c].op = "get_company_account"
       THEN /\ accounts' = rows
            /\ last' = [last EXCEPT ![c] =
                  [op |-> req[c].op, id |-> k, result |-> "returned", at |-> pc[c],
                   owner |-> req[c].owner, account |-> j, created |-> created]]
            /\ pc' = [pc EXCEPT ![c] = "idle"]
            /\ req' = [req EXCEPT ![c] = NoReq]
       ELSE IF k < Len(required)
       THEN /\ accounts' = SeedUpdate(rows, j, k)
            /\ req' = [req EXCEPT ![c].id = k + 1]
            /\ pc' = [pc EXCEPT ![c] = "loaded"]
            /\ UNCHANGED last
       ELSE /\ accounts' = CommitRows(SeedUpdate(rows, j, k), c)
            /\ last' = [last EXCEPT ![c] =
                  [op |-> req[c].op, id |-> 0, result |-> "returned", at |-> pc[c],
                   owner |-> req[c].owner, account |-> 0, created |-> FALSE]]
            /\ pc' = [pc EXCEPT ![c] = "idle"]
            /\ req' = [req EXCEPT ![c] = NoReq]

\* get_or_create: the get
ChartGet(c) ==
    /\ pc[c] = "loaded"
    /\ req[c].op \in ChartOps
    /\ LET j == AccountLookup(accounts, c, req[c].owner, required[req[c].id].code)
       IN IF j = 0
          THEN /\ pc' = [pc EXCEPT ![c] = "txn"]
               /\ UNCHANGED <<accounts, req, last>>
          ELSE ChartAdvance(c, accounts, j, FALSE)
    /\ UNCHANGED <<journal, stock, docs, parties, snap, nops>>

\* get_or_create: the create after a get that found nothing; an
\* IntegrityError is answered by a second get
ChartCreate(c) ==
    /\ pc[c] = "txn"
    /\ req[c].op \in ChartOps
    /\ LET o == req[c].owner
           k == req[c].id
           code == required[k].code
       IN /\ ~\E j \in DOMAIN accounts :
                 /\ accounts[j].owner = o /\ accounts[j].code = code
                 /\ accounts[j].txn \notin {"", c}
          /\ IF unique_account_code_per_owner(accounts, o, code)
             THEN LET t == IF req[c].op = "seed" THEN c ELSE ""
                      rows == Append(accounts, DefaultRow(o, k, t))
                  IN ChartAdvance(c, rows, Len(rows), TRUE)
             ELSE ChartAdvance(c, accounts, AccountLookup(accounts, c, o, code), FALSE)
    /\ UNCHANGED <<journal, stock, docs, parties, snap, nops>>

NextChart ==
    \/ \E c \in Callers, op \in ChartOps, o \in Owners, k \in DOMAIN required :
          StartChart(c, op, o, k)
    \/ \E c \in Callers : ChartGet(c)
    \/ \E c \in Callers : ChartCreate(c)

\* a new tenant has no account; an older one may hold a cash account made by
\* the account form under another name and without the payment flag
InitChart ==
    /\ accounts \in {<< >>, <<AccountRow("A", "1010", "Till", "ASSET", TRUE, FALSE, "")>>}
    /\ journal = << >>
    /\ stock = [p \in Products |-> InitStock]
    /\ docs = << >>
    /\ parties = {}
    /\ pc = [c \in Callers |-> "idle"]
    /\ req = [c \in Callers |-> NoReq]
    /\ snap = [c \in Callers |-> NoSnap]
    /\ last = [c \in Callers |-> NoLast]
    /\ nops = 0

SpecChart == InitChart /\ [][NextChart]_vars

\* the committed columns of the rows of one owner
OwnerChart(rows, o) ==
    {[rows[j] EXCEPT !.txn = ""] : j \in {m \in DOMAIN rows : rows[m].owner = o}}

\* C25: there is at most one Account per (owner, code); two calls of
\* get_company_account for the same owner and code return the same row and
\* at most one of them created it; and once seed_default_accounts_for_owner
\* has run for an owner, however often, the owner has exactly one account
\* for each required code, with the required name, type and flags.
C25_OneAccountPerOwnerCode ==
    /\ \A i, j \in DOMAIN accounts :
          (accounts[i].owner = accounts[j].owner /\ accounts[i].code = accounts[j].code)
          => i = j
    /\ \A c, d \in Callers :
          (c # d /\ last[c].op = "get_company_account" /\ last[d].op = "get_company_account"
                 /\ last[c].owner = last[d].owner /\ last[c].id = last[d].id)
          => /\ last[c].account = last[d].account
             /\ ~(last[c].created /\ last[d].created)
    /\ \A c \in Callers :
          last[c].op = "seed"
          => OwnerChart(accounts, last[c].owner)
               = {DefaultRow(last[c].owner, k, "") : k \in DOMAIN required}

\* two calls for the same owner and code both missed on their get; one
\* created the row, the other ran into the unique index and got that row
C25_Witness ==
    \E c, d \in Callers :
        /\ c # d
        /\ last[c].op = "get_company_account" /\ last[d].op = "get_company_account"
        /\ last[c].owner = last[d].owner /\ last[c].id = last[d].id
        /\ last[c].created /\ last[c].at = "txn"
        /\ ~last[d].created /\ last[d].at = "txn"
        /\ last[c].account = last[d].account

\* ------------------------------------------------------------------------
\* Parties created from an empty party list
\* ------------------------------------------------------------------------
NextParty ==
    \/ \E c \in Callers, p \in PartyIds : CreateParty(c, p)
    \/ \E c \in Callers, p \in PartyIds, op \in {"opening", "view_opening"} : CallOpening(c, p, op)
    \/ \E c \in Callers : BeginOpening(c)
    \/ \E c \in Callers : BeginViewOpening(c)
    \/ \E c \in Callers : CommitOpening(c)

\* a seeded tenant A and tenant B before either has a party or a document
InitParty ==
    /\ accounts = InitAccounts
    /\ journal = << >>
    /\ stock = [p \in Products |-> InitStock]
    /\ docs = << >>
    /\ parties = {}
    /\ pc = [c \in Callers |-> "idle"]
    /\ req = [c \in Callers |-> NoReq]
    /\ snap = [c \in Callers |-> NoSnap]
    /\ last = [c \in Callers |-> NoLast]
    /\ nops = 0

SpecParty == InitParty /\ [][NextParty]_vars

\* the post_save handler of the request that created party p has returned
FirstPersisted(p) ==
    /\ p \in parties
    /\ ~\E c \in Callers : req[c].op = "opening" /\ req[c].chain /\ req[c].id = p

\* C26: once a party has been persisted for the first time, it has exactly
\* one JournalEntry keyed ("PartyOpening", party id) if its opening_balance
\* is positive, of that amount and between its control account and Opening
\* Balances (3000), and none if its opening_balance is 0; no later call of
\* post_opening_balance or create_opening_entry_for_party adds another.
C26_OneOpeningEntryPerParty ==
    \A p \in PartyIds :
        LET party == Party[p]
            S == JEIds(journal, party.owner, "PartyOpening", p)
            control == Acct(party.owner, control_code(party.party_type))
            opening == Acct(party.owner, "3000")
        IN /\ Cardinality(S) <= 1
           /\ FirstPersisted(p) =>
                 IF party.opening_balance > 0
                 THEN /\ Cardinality(S) = 1
                      /\ \A k \in S :
                            /\ journal[k].amount = party.opening_balance
                            /\ {journal[k].debit_account, journal[k].credit_account}
                                 = {control, opening}
                 ELSE S = {}

\* the request that created NewCust has ended, a later call for the party
\* has returned, and the party has its one opening entry
C26_Witness ==
    /\ parties = {NewCust}
    /\ nops = 2
    /\ \A c \in Callers : pc[c] = "idle" /\ last[c].id = NewCust /\ last[c].result = "noop"
    /\ Cardinality(JEIds(journal, Party[NewCust].owner, "PartyOpening", NewCust)) = 1

\* the stock a product has when exactly the posted documents have moved it
RECURSIVE AppliedDeltas(_, _, _)
AppliedDeltas(ds, k, p) ==
    IF k = 0 THEN 0
    ELSE (IF ds[k].kind \in StockKinds /\ ds[k].posted THEN StatedDelta(ds[k], p) ELSE 0)
         + AppliedDeltas(ds, k - 1, p)

\* C27: in every state, every document is posted if and only if a
\* JournalEntry keyed (owner, kind, id) exists for it, and every product's
\* stock is its initial stock moved by the deltas of exactly the posted
\* documents: no entry without the flag and the stock change, and no flag or
\* stock change without the entry.
C27_PostedIffEntryIffStock ==
    /\ \A i \in DOMAIN docs :
          docs[i].kind # "deleted"
          => (docs[i].posted <=> KeyExists(journal, docs[i].owner, docs[i].kind, i))
    /\ \A k \in DOMAIN journal :
          journal[k].related_model \notin {"PartyOpening", "AccountOpening"}
          => /\ journal[k].related_id \in DOMAIN docs
             /\ docs[journal[k].related_id].kind = journal[k].related_model
             /\ docs[journal[k].related_id].posted
    /\ \A p \in Products : stock[p] = InitStock + AppliedDeltas(docs, Len(docs), p)

\* the sum of get_party_balance over the tenant's parties of one type
PartyBalances(ds, ps, o, type) ==
    SumSet({p \in ps : Party[p].owner = o /\ Party[p].party_type = type},
           [p \in PartyIds |-> get_party_balance(ds, o, p, NoDate)])

\* C28: in every state the balance of a tenant's Customer Control account
\* (1300) is the sum of get_party_balance over its customers and the balance
\* of its Supplier Control account (2100) is the sum over its suppliers,
\* parties with a debit or a credit opening balance included.
C28_ControlAccountsMatchParties ==
    \A o \in Owners :
        /\ get_account_balance(journal, o, Acct(o, "1300"), NoDate)
             = PartyBalances(docs, parties, o, "CUSTOMER")
        /\ get_account_balance(journal, o, Acct(o, "2100"), NoDate)
             = PartyBalances(docs, parties, o, "SUPPLIER")

\* C29: for every party and every range with a start date, the balance of
\* the last row of get_party_ledger(start, end) is get_party_balance as of
\* end: the "Opening Balance" row carries the stored opening balance and the
\* posted documents dated before start.
C29_PartyLedgerClosesAtBalance ==
    \A p \in parties : \A start \in Dates : \A end \in AsOfs :
        (end = NoDate \/ start <= end)
        => LET rows == get_party_ledger(docs, Party[p].owner, p, start, end)
           IN rows[Len(rows)].balance = get_party_balance(docs, Party[p].owner, p, end)

\* ------------------------------------------------------------------------
\* Sales created through the sales form (core/views.py)
\* ------------------------------------------------------------------------
\* the lines a sales form is submitted with
SaleForms ==
    {<<Line("pA1", 6, 5, 0)>>,
     <<Line("pA1", 11, 5, 0)>>,
     <<Line("pA2", 4, 5, 0), Line("pA1", 0, 5, 0)>>,
     <<Line("pA1", 3, 5, 0), Line("pA2", 7, 5, 0)>>}

\* sales_new: lines without a positive quantity are skipped
RECURSIVE line_items(_)
line_items(form) ==
    IF form = << >> THEN << >>
    ELSE (IF Head(form).quantity_units <= 0 THEN << >> ELSE <<Head(form)>>)
         \o line_items(Tail(form))

\* sales_new: the form is refused when a line asks for more than the
\* product's current_stock, or when no line is left
sales_new_error(form, st) ==
    \/ \E k \in DOMAIN form :
          form[k].quantity_units > 0 /\ form[k].quantity_units > st[form[k].product]
    \/ line_items(form) = << >>

\* the SalesInvoice and items sales_new creates
sales_new_invoice(form) ==
    Invoice("SalesInvoice", "A", Today, CustA, line_items(form), "CREDIT", NoAccount, 0, 0, 0)

\* one request to sales_new
SalesNew(c, form) ==
    /\ CanStart(c)
    /\ form \in SaleForms
    /\ Len(docs) < 2 * MaxDocs
    /\ IF sales_new_error(form, stock)
       THEN /\ UNCHANGED docs
            /\ last' = [last EXCEPT ![c] = [op |-> "sales_new", id |-> 0, result |-> "error",
                                            at |-> "loaded"]]
       ELSE /\ docs' = Append(docs, sales_new_invoice(form))
            /\ last' = [last EXCEPT ![c] = [op |-> "sales_new", id |-> Len(docs) + 1,
                                            result |-> "saved", at |-> "loaded"]]
    /\ nops' = nops + 1
    /\ UNCHANGED <<accounts, journal, stock, parties, pc, req, snap>>

\* sales are created and posted, one request after the other
NextSales ==
    \/ \E i \in 1..(2 * MaxDocs) : Load(FirstCaller, i)
    \/ BeginPost(FirstCaller)
    \/ CommitPost(FirstCaller)
    \/ \E form \in SaleForms : SalesNew(FirstCaller, form)

\* the drafts at the start were created through sales_new before any of
\* them was posted
InitSales ==
    /\ accounts = InitAccounts
    /\ journal = InitJournal
    /\ stock = [p \in Products |-> InitStock]
    /\ \E s \in [1..MaxDocs -> {f \in SaleForms : ~sales_new_error(f, stock)}] :
          docs = [k \in 1..MaxDocs |-> sales_new_invoice(s[k])]
    /\ parties = InitParties
    /\ pc = [c \in Callers |-> "idle"]
    /\ req = [c \in Callers |-> NoReq]
    /\ snap = [c \in Callers |-> NoSnap]
    /\ last = [c \in Callers |-> NoLast]
    /\ nops = 0

SpecSales == InitSales /\ [][NextSales]_vars

\* C30: when every SalesInvoice was created through sales_new and the
\* products started with a stock that is not negative, no product's
\* current_stock is negative after any sequence of sales_new and sales_post
\* requests.
C30_StockNeverNegative ==
    \A p \in Products : stock[p] >= 0

====
